---- MODULE Spec2Model ----
(***************************************************************************)
(* Access-control engine of the Oracle DBA platform: the token service     *)
(* (AuthService), the authorization guard (middleware), the RBAC           *)
(* service and the audit log repository, as a state machine over the       *)
(* PostgreSQL tables auth.users, auth.user_roles and audit.logs.           *)
(***************************************************************************)
EXTENDS Integers, Sequences, FiniteSets, TLC

VARIABLES users, user_roles, audit_logs, issued, now, last, oracle, creating, service,
          session_snapshots, recording

vars ==
  <<users, user_roles, audit_logs, issued, now, last, oracle, creating, service,
    session_snapshots, recording>>

(***************************************************************************)
(* Bounds of the model.                                                    *)
(***************************************************************************)
\* the clock runs from 0 to MaxTime ticks
MaxTime == 3
\* ticks per second: jwt.TimePrecision is one second, time.Now() is finer
TicksPerSecond == 2
\* token lifetime (JWT_EXPIRATION) in seconds
JwtExpirationSeconds == 1
\* number of tokens Login hands out in one behaviour
MaxTokens == 2
\* number of rows audit.logs holds in one behaviour
MaxAudit == 2
\* number of rows audit.logs holds in one behaviour of the services
MaxServiceAudit == 1
\* number of requests that write audit entries at the same time
MaxWriters == 2

\* the rows monitoring.session_snapshots holds at most
MaxSnapshots == 2

(***************************************************************************)
(* Configuration and seeded catalog.                                       *)
(***************************************************************************)
NULL == "NULL"

jwtSecret == "configured-secret-of-34-characters"
OtherSecret == "attacker-secret"
jwtIssuer == "oracle-dba-platform"
jwtExpiration == JwtExpirationSeconds * TicksPerSecond

\* Config.Validate: the least length of JWT_SECRET
MinSecretLength == 32

\* the default of JWT_EXPIRATION: 24 hours
DefaultExpiration == 24 * 3600 * TicksPerSecond

\* getEnv: the value of the variable, the default when it is unset or empty
getEnv(value, defaultValue) == IF value = "" THEN defaultValue ELSE value

\* time.ParseDuration: the texts that are durations, and their value in ticks
Durations == { "0s", "-1s", "500ms", "1s", "2s" }

ParseDuration(text) ==
  CASE text = "0s" -> 0
    [] text = "-1s" -> 0 - TicksPerSecond
    [] text = "500ms" -> TicksPerSecond \div 2
    [] text = "1s" -> TicksPerSecond
    [] text = "2s" -> 2 * TicksPerSecond

\* getDurationEnv: the parsed value, the default when the variable is unset
\* or does not parse
getDurationEnv(value, defaultValue) ==
  IF value # "" /\ value \in Durations THEN ParseDuration(value) ELSE defaultValue

\* Config.Validate, for an environment whose database settings are complete
Validate(cfg) ==
  IF cfg.JWT.Secret = "" THEN "JWT_SECRET is required"
  ELSE IF Len(cfg.JWT.Secret) < MinSecretLength
    THEN "JWT_SECRET must be at least 32 characters"
  ELSE "nil"

\* config.Load: the configuration read from the environment, and the error
\* of its validation
Load(env) ==
  LET cfg == [ JWT |-> [ Secret |-> getEnv(env.JWT_SECRET, ""),
                         Expiration |-> getDurationEnv(env.JWT_EXPIRATION, DefaultExpiration),
                         Issuer |-> getEnv(env.JWT_ISSUER, "oracle-dba-platform") ] ]
  IN [ cfg |-> cfg, err |-> Validate(cfg) ]

\* NewAuthService: the fields the token service works with
NewAuthService(secret, expiration, issuer) ==
  [ jwtSecret |-> secret, jwtExpiration |-> expiration, jwtIssuer |-> issuer ]

\* auth.roles, ORDER BY name
Roles ==
  << [ID |-> "r-admin", Name |-> "ADMIN"],
     [ID |-> "r-dba", Name |-> "DBA"],
     [ID |-> "r-developer", Name |-> "DEVELOPER"],
     [ID |-> "r-read-only", Name |-> "READ_ONLY"] >>

\* auth.permissions, ORDER BY code
Permissions ==
  << "AUDIT_READ", "MANAGE_ROLES", "MANAGE_USERS", "SESSION_KILL", "VIEW_LOCKS",
     "VIEW_SCHEMA", "VIEW_SESSIONS", "VIEW_SQL", "VIEW_TABLESPACES" >>

Range(s) == { s[i] : i \in DOMAIN s }

RoleIDs == { Roles[i].ID : i \in DOMAIN Roles }
PermissionCodes == Range(Permissions)

\* auth.role_permissions as seeded: the codes of each role
role_permissions ==
  [ r \in RoleIDs |->
      CASE r = "r-admin" -> PermissionCodes
        [] r = "r-dba" -> { "VIEW_SESSIONS", "VIEW_LOCKS", "VIEW_TABLESPACES",
                            "VIEW_SQL", "VIEW_SCHEMA", "AUDIT_READ" }
        [] r = "r-developer" -> { "VIEW_SESSIONS", "VIEW_SQL" }
        [] r = "r-read-only" -> { "VIEW_TABLESPACES" } ]

\* identities of auth.users; UnknownUserID is a well-formed id without a row
UserIDs == { "u-admin", "u-bob" }
UnknownUserID == "u-nobody"
\* the id uuid.New() gives to the user CreateUser inserts
NewUserID == "u-carol"
UnknownRoleID == "r-nothing"

\* bcrypt.GenerateFromPassword / CompareHashAndPassword
HashPassword(password) == << "bcrypt", password >>
CompareHashAndPassword(hash, password) == hash = HashPassword(password)

(***************************************************************************)
(* Repositories.                                                           *)
(***************************************************************************)
\* userRepository.GetByUsername: the ids of the rows with that username (the
\* column is UNIQUE); empty for sql.ErrNoRows
GetByUsername(username) == { u \in DOMAIN users : users[u].Username = username }

\* userRoleRepository.GetRolesByUserID: join on user_roles, ORDER BY r.name
GetRolesByUserID(ur, userID) ==
  SelectSeq(Roles, LAMBDA r : << userID, r.ID >> \in ur)

\* GetPermissionsByUserID without its WHERE ur.user_id = $1: the codes of
\* every role that is assigned to anyone
GetPermissionsByUserID_AnyUser(ur, userID) ==
  SelectSeq(Permissions,
            LAMBDA c : \E r \in RoleIDs, u \in UserIDs :
                         << u, r >> \in ur /\ c \in role_permissions[r])

\* permissionRepository.GetPermissionsByUserID: SELECT DISTINCT over the join
\* of permissions, role_permissions and user_roles, ORDER BY p.code
GetPermissionsByUserID(ur, userID) ==
  SelectSeq(Permissions,
            LAMBDA c : \E r \in RoleIDs : << userID, r >> \in ur /\ c \in role_permissions[r])

\* safeString: a nil pointer is written as the empty string
safeString(s) == IF s = NULL THEN "" ELSE s

\* auditLogRepository.Create: the row inserted into audit.logs for log
AuditRow(logs, log, t) ==
  [ id |-> Len(logs) + 1,
    user_id |-> log.UserID,
    username |-> log.Username,
    action |-> log.Action,
    target |-> log.ResourceType,
    success |-> (log.Status = "SUCCESS"),
    metadata |-> [resource_type |-> log.ResourceType,
                  resource_id |-> safeString(log.ResourceID),
                  oracle_schema |-> safeString(log.OracleSchema)],
    created_at |-> t ]

\* Create as an upsert keyed by username and action: an existing row of the
\* same username and action is replaced by the new one
Create_Upsert(logs, log, t, ok) ==
  IF ~ok THEN logs
  ELSE IF \E k \in DOMAIN logs : logs[k].username = log.Username /\ logs[k].action = log.Action
    THEN LET k == CHOOSE j \in DOMAIN logs :
                    logs[j].username = log.Username /\ logs[j].action = log.Action
         IN [ logs EXCEPT ![k] = AuditRow(logs, log, t) ]
  ELSE Append(logs, AuditRow(logs, log, t))

\* auditLogRepository.Create: the table after the INSERT; the statement may
\* fail (ok = FALSE), and then the table is as before
Create(logs, log, t, ok) ==
  IF ok THEN Append(logs, AuditRow(logs, log, t)) ELSE logs

\* auditLogRepository.GetByID / List: the Status read back from a row
StatusOf(row) == IF row.success THEN "SUCCESS" ELSE "FAILURE"

\* the outcomes the INSERT of one audit row can have
CreateOutcomes == IF Len(audit_logs) < MaxAudit THEN BOOLEAN ELSE { FALSE }

\* repository.AuditLog with the fields the services leave unset
AuditLog(userID, username, action, resourceType, resourceID, status, errorMessage) ==
  [ UserID |-> userID, Username |-> username, Action |-> action,
    ResourceType |-> resourceType, ResourceID |-> resourceID,
    OracleSchema |-> NULL, Status |-> status, ErrorMessage |-> errorMessage ]

(***************************************************************************)
(* Token service (AuthService.generateJWT, AuthService.ValidateToken).     *)
(***************************************************************************)
\* jwt.NewNumericDate: the time truncated to jwt.TimePrecision (one second)
NewNumericDate(t) == (t \div TicksPerSecond) * TicksPerSecond

\* the signing methods the jwt library registers (jwt.GetSigningMethod)
SigningMethods == { "HS256", "HS384", "HS512", "RS256", "none" }
SigningMethodHMAC == { "HS256", "HS384", "HS512" }

\* claims with every field at its zero value
NoClaims ==
  [ UserID |-> "", Username |-> "", Roles |-> << >>, Permissions |-> << >>,
    ExpiresAt |-> 0, IssuedAt |-> 0, Issuer |-> "", Subject |-> "" ]

\* the empty signature
NoSignature == [alg |-> "none", key |-> "", signed |-> NoClaims]

\* Token.SignedString: the signature of method alg with key over the
\* encoded header and claims; the "none" method signs nothing
Sign(alg, key, claims) ==
  IF alg = "none" THEN NoSignature ELSE [alg |-> alg, key |-> key, signed |-> claims]

\* a string that does not parse as a token, and the absent token
MalformedToken == [alg |-> "", claims |-> NoClaims, sig |-> NoSignature]
NoToken == [alg |-> "-", claims |-> NoClaims, sig |-> NoSignature]

\* the role names generateJWT extracts, in the order of the rows
RoleNames(roles) == [ i \in DOMAIN roles |-> roles[i].Name ]

\* AuthService.generateJWT: HS256 over the claims, signed with s.jwtSecret
generateJWT(userID, username, roles, permissions, expiresAt, t) ==
  LET claims == [ UserID |-> userID,
                  Username |-> username,
                  Roles |-> RoleNames(roles),
                  Permissions |-> permissions,
                  ExpiresAt |-> NewNumericDate(expiresAt),
                  IssuedAt |-> NewNumericDate(t),
                  Issuer |-> service.jwtIssuer,
                  Subject |-> username ]
  IN [ alg |-> "HS256", claims |-> claims, sig |-> Sign("HS256", service.jwtSecret, claims) ]

\* the keyfunc of ValidateToken: the key for a token of an HMAC method,
\* NULL (an error) for any other method
Keyfunc(alg) == IF alg \in SigningMethodHMAC THEN service.jwtSecret ELSE NULL

\* Validator.verifyExpiresAt: cmp.Before(exp)
verifyExpiresAt(exp, t) == t < exp

\* ValidateToken with a parser that skips the validation of the registered
\* claims (jwt.WithoutClaimsValidation)
ValidateToken_SkipClaims(tok, t) ==
  IF tok.alg \notin SigningMethods
    THEN [err |-> "invalid token: malformed", claims |-> NoClaims]
  ELSE IF Keyfunc(tok.alg) = NULL
    THEN [err |-> "invalid token: unexpected signing method", claims |-> NoClaims]
  ELSE IF tok.sig # Sign(tok.alg, Keyfunc(tok.alg), tok.claims)
    THEN [err |-> "invalid token: signature is invalid", claims |-> NoClaims]
  ELSE [err |-> "nil", claims |-> tok.claims]

\* ValidateToken that decodes the claims without verifying the signature
\* (Parser.ParseUnverified)
ValidateToken_SkipSignature(tok, t) ==
  IF tok.alg \notin SigningMethods
    THEN [err |-> "invalid token: malformed", claims |-> NoClaims]
  ELSE IF ~verifyExpiresAt(tok.claims.ExpiresAt, t)
    THEN [err |-> "invalid token: token is expired", claims |-> NoClaims]
  ELSE [err |-> "nil", claims |-> tok.claims]

\* AuthService.ValidateToken: jwt.ParseWithClaims (method lookup, keyfunc,
\* signature, then the registered claims) and the Valid flag
ValidateToken(tok, t) ==
  IF tok.alg \notin SigningMethods
    THEN [err |-> "invalid token: malformed", claims |-> NoClaims]
  ELSE IF Keyfunc(tok.alg) = NULL
    THEN [err |-> "invalid token: unexpected signing method", claims |-> NoClaims]
  ELSE IF tok.sig # Sign(tok.alg, Keyfunc(tok.alg), tok.claims)
    THEN [err |-> "invalid token: signature is invalid", claims |-> NoClaims]
  ELSE IF ~verifyExpiresAt(tok.claims.ExpiresAt, t)
    THEN [err |-> "invalid token: token is expired", claims |-> NoClaims]
  ELSE [err |-> "nil", claims |-> tok.claims]

(***************************************************************************)
(* Authorization guard (middleware).                                       *)
(***************************************************************************)
NoUser == [ UserID |-> NULL, Username |-> "", Roles |-> << >>, Permissions |-> << >> ]

NoHeader == [ scheme |-> "", token |-> NoToken ]
BasicHeader == [ scheme |-> "Basic", token |-> NoToken ]
Bearer(tok) == [ scheme |-> "Bearer", token |-> tok ]

\* uuid.Parse of the user id a token carries
ParsesAsUUID(id) == id \in UserIDs \cup { UnknownUserID, NewUserID }

\* Middleware that loads the user's permissions from the catalog on every
\* request instead of taking them from the claims
Middleware_Live(hdr, t) ==
  IF hdr = NoHeader
    THEN [next |-> TRUE, status |-> 200, ctx |-> NoUser]
  ELSE IF hdr.scheme # "Bearer"
    THEN [next |-> FALSE, status |-> 401, ctx |-> NoUser]
  ELSE LET v == ValidateToken(hdr.token, t)
       IN IF v.err # "nil"
            THEN [next |-> FALSE, status |-> 401, ctx |-> NoUser]
          ELSE IF ~ParsesAsUUID(v.claims.UserID)
            THEN [next |-> FALSE, status |-> 401, ctx |-> NoUser]
          ELSE [next |-> TRUE, status |-> 200,
                ctx |-> [ UserID |-> v.claims.UserID,
                          Username |-> v.claims.Username,
                          Roles |-> v.claims.Roles,
                          Permissions |-> GetPermissionsByUserID(user_roles, v.claims.UserID) ]]

\* Middleware that treats a request with a bad Authorization header as
\* unauthenticated and lets it through
Middleware_FallThrough(hdr, t) ==
  IF hdr = NoHeader
    THEN [next |-> TRUE, status |-> 200, ctx |-> NoUser]
  ELSE IF hdr.scheme # "Bearer"
    THEN [next |-> TRUE, status |-> 200, ctx |-> NoUser]
  ELSE LET v == ValidateToken(hdr.token, t)
       IN IF v.err # "nil"
            THEN [next |-> TRUE, status |-> 200, ctx |-> NoUser]
          ELSE IF ~ParsesAsUUID(v.claims.UserID)
            THEN [next |-> TRUE, status |-> 200, ctx |-> NoUser]
          ELSE [next |-> TRUE, status |-> 200,
                ctx |-> [ UserID |-> v.claims.UserID,
                          Username |-> v.claims.Username,
                          Roles |-> v.claims.Roles,
                          Permissions |-> v.claims.Permissions ]]

\* AuthMiddleware.Middleware: next |-> TRUE when next.ServeHTTP runs, with the
\* user context the request then carries
Middleware(hdr, t) ==
  IF hdr = NoHeader
    THEN [next |-> TRUE, status |-> 200, ctx |-> NoUser]
  ELSE IF hdr.scheme # "Bearer"
    THEN [next |-> FALSE, status |-> 401, ctx |-> NoUser]
  ELSE LET v == ValidateToken(hdr.token, t)
       IN IF v.err # "nil"
            THEN [next |-> FALSE, status |-> 401, ctx |-> NoUser]
          ELSE IF ~ParsesAsUUID(v.claims.UserID)
            THEN [next |-> FALSE, status |-> 401, ctx |-> NoUser]
          ELSE [next |-> TRUE, status |-> 200,
                ctx |-> [ UserID |-> v.claims.UserID,
                          Username |-> v.claims.Username,
                          Roles |-> v.claims.Roles,
                          Permissions |-> v.claims.Permissions ]]

\* the loop "for _, x := range list { if x == wanted { return found } }"
RECURSIVE Contains(_, _, _)
Contains(list, wanted, i) ==
  IF i > Len(list) THEN FALSE
  ELSE IF list[i] = wanted THEN TRUE
  ELSE Contains(list, wanted, i + 1)

\* RequireAuth
RequireAuth(ctx) == IF ctx = NoUser THEN "authentication required" ELSE "nil"

\* RequirePermission that also lets a role of that name through
RequirePermission_RoleImplies(ctx, permission) ==
  IF RequireAuth(ctx) # "nil" THEN RequireAuth(ctx)
  ELSE IF Contains(ctx.Permissions, permission, 1) \/ Contains(ctx.Roles, permission, 1)
    THEN "nil"
  ELSE "insufficient permissions"

\* RequirePermission
RequirePermission(ctx, permission) ==
  IF RequireAuth(ctx) # "nil" THEN RequireAuth(ctx)
  ELSE IF Contains(ctx.Permissions, permission, 1) THEN "nil"
  ELSE "insufficient permissions"

\* RequireAnyPermission: permissions is the sequence of alternatives
RECURSIVE AnyIn(_, _, _)
AnyIn(userPerms, permissions, i) ==
  IF i > Len(permissions) THEN FALSE
  ELSE IF permissions[i] \in userPerms THEN TRUE
  ELSE AnyIn(userPerms, permissions, i + 1)

RequireAnyPermission(ctx, permissions) ==
  IF RequireAuth(ctx) # "nil" THEN RequireAuth(ctx)
  ELSE IF AnyIn(Range(ctx.Permissions), permissions, 1) THEN "nil"
  ELSE "insufficient permissions"

\* RequireRole
RequireRole(ctx, role) ==
  IF RequireAuth(ctx) # "nil" THEN RequireAuth(ctx)
  ELSE IF Contains(ctx.Roles, role, 1) THEN "nil"
  ELSE "insufficient role"

\* RBACService.HasPermission: the live lookup in the permission catalog
HasPermission(ur, userID, permissionCode) ==
  Contains(GetPermissionsByUserID(ur, userID), permissionCode, 1)

(***************************************************************************)
(* The monitored Oracle database and the monitoring queries (pkg/oracle).  *)
(***************************************************************************)
\* a NULL blocking_session (session ids are positive)
NoSession == 0

\* the session ids in v$session
Sids == { 10, 20, 30 }

\* a row of v$session: background sessions have no username; session 20 runs
\* the statement "q1"; a session that waits for a blocker is ACTIVE
Session(sid, type, blocking_session, seconds_in_wait) ==
  [ sid |-> sid, serial |-> 1, type |-> type,
    username |-> IF type = "USER" THEN "APP" ELSE NULL,
    schemaname |-> IF type = "USER" THEN "APP" ELSE "SYS",
    status |-> IF blocking_session = NoSession THEN "INACTIVE" ELSE "ACTIVE",
    sql_id |-> IF sid = 20 THEN "q1" ELSE NULL,
    last_call_et |-> seconds_in_wait,
    logon_time |-> sid,
    blocking_session |-> blocking_session,
    seconds_in_wait |-> seconds_in_wait ]

\* the contents v$session can have: sessions 10 and 20, with or without 30;
\* sessions 10 and 20 may name each other or themselves as their blocker,
\* session 30 may name session 10;
\* session 10 may be a background process
SessionAttributes(sid) ==
  [ type : IF sid = 10 THEN { "USER", "BACKGROUND" } ELSE { "USER" },
    blocking_session : IF sid = 30 THEN { NoSession, 10 } ELSE { NoSession, 10, 20 },
    seconds_in_wait : IF sid = 10 THEN { 60 } ELSE { 45, 60 } ]

SessionChoices(present) ==
  { f \in [ present -> UNION { SessionAttributes(sid) : sid \in present } ] :
      \A sid \in present : f[sid] \in SessionAttributes(sid) }

SessionTables ==
  UNION { { { Session(sid, f[sid].type, f[sid].blocking_session, f[sid].seconds_in_wait) :
                sid \in present } : f \in SessionChoices(present) } :
          present \in { { 10, 20 }, Sids } }

\* v$sql holds one row per child cursor: one or two rows for "q1"
SqlRow(child_number) == [ sql_id |-> "q1", child_number |-> child_number, sql_text |-> "UPDATE t" ]
SqlTables == { { SqlRow(0) }, { SqlRow(0), SqlRow(1) } }

\* v$instance holds one row; the view may also return none
InstanceTables == { { }, { [ instance_name |-> "ORCL", status |-> "OPEN" ] } }

\* the databases the service is pointed at
Databases ==
  [ v_session : SessionTables, v_sql : SqlTables, v_instance : InstanceTables ]

\* session 20 has waited 45 seconds for session 10
ExampleDatabase ==
  [ v_session |-> { Session(20, "USER", 10, 45), Session(10, "USER", NoSession, 60) },
    v_sql |-> { SqlRow(0) },
    v_instance |-> { [ instance_name |-> "ORCL", status |-> "OPEN" ] } ]

\* the row a LEFT JOIN adds when nothing matches
NullSql == [ sql_id |-> NULL, child_number |-> 0, sql_text |-> NULL ]

\* LEFT JOIN v$sql q ON x.sql_id = q.sql_id: the matching rows of v$sql, or
\* one row of NULLs (a NULL sql_id matches nothing)
LeftJoinSql(db, sql_id) ==
  LET matches == { q \in db.v_sql : sql_id # NULL /\ q.sql_id = sql_id }
  IN IF matches = { } THEN { NullSql } ELSE matches

\* ORDER BY key DESC over keyed, a set of << key, row >>: the orders the
\* result set can come in; rows with equal keys come in any order
RECURSIVE OrderByDesc(_)
OrderByDesc(keyed) ==
  IF keyed = { } THEN { << >> }
  ELSE LET first == { r \in keyed : \A q \in keyed : r[1] >= q[1] }
       IN UNION { { << r[2] >> \o rest : rest \in OrderByDesc(keyed \ { r }) } : r \in first }

(***************************************************************************)
(* OracleService: what the monitoring queries return.                      *)
(***************************************************************************)
\* v$session s LEFT JOIN v$sql sq ON s.sql_id = sq.sql_id
SessionJoin(db) ==
  UNION { { [ s |-> s, sq |-> q ] : q \in LeftJoinSql(db, s.sql_id) } : s \in db.v_session }

\* the columns of the session queries that OracleSession takes
OracleSession(j) ==
  [ SID |-> j.s.sid, Serial |-> j.s.serial, Username |-> j.s.username,
    SchemaName |-> j.s.schemaname, Status |-> j.s.status, SQLID |-> j.s.sql_id,
    SQLText |-> j.sq.sql_text, LastCallET |-> j.s.last_call_et,
    BlockingSession |-> j.s.blocking_session, SecondsInWait |-> j.s.seconds_in_wait ]

\* QueryActiveSessions: user sessions that are ACTIVE, ORDER BY last_call_et DESC
QueryActiveSessions(db) ==
  OrderByDesc({ << j.s.last_call_et, OracleSession(j) >> :
                  j \in { x \in SessionJoin(db) :
                            x.s.type = "USER" /\ x.s.username # NULL /\ x.s.status = "ACTIVE" } })

\* QueryAllSessions: user sessions, ORDER BY logon_time DESC
QueryAllSessions(db) ==
  OrderByDesc({ << j.s.logon_time, OracleSession(j) >> :
                  j \in { x \in SessionJoin(db) : x.s.type = "USER" /\ x.s.username # NULL } })

\* QuerySessionsBySchema: user sessions of one schema, ORDER BY last_call_et DESC
QuerySessionsBySchema(db, schemaName) ==
  OrderByDesc({ << j.s.last_call_et, OracleSession(j) >> :
                  j \in { x \in SessionJoin(db) :
                            x.s.type = "USER" /\ x.s.username # NULL
                              /\ x.s.schemaname = schemaName } })

\* v$session blocking JOIN v$session blocked ON blocking.sid =
\* blocked.blocking_session, LEFT JOIN v$sql for each side, WHERE
\* blocking.type = 'USER'
BlockingJoin(db) ==
  UNION { UNION { { [ blocking |-> b, blocked |-> d, blocking_sql |-> bq, blocked_sql |-> dq ] :
                      bq \in LeftJoinSql(db, b.sql_id), dq \in LeftJoinSql(db, d.sql_id) } :
                  d \in { x \in db.v_session : x.blocking_session = b.sid } } :
          b \in { x \in db.v_session : x.type = "USER" } }

\* the columns of QueryBlockingSessions that BlockingSession takes
BlockingSession(j) ==
  [ BlockingSID |-> j.blocking.sid, BlockingSerial |-> j.blocking.serial,
    BlockingUser |-> j.blocking.username, BlockingStatus |-> j.blocking.status,
    BlockingSQLID |-> j.blocking.sql_id, BlockingSQLText |-> j.blocking_sql.sql_text,
    BlockedSID |-> j.blocked.sid, BlockedSerial |-> j.blocked.serial,
    BlockedUser |-> j.blocked.username,
    BlockedDurationSeconds |-> j.blocked.seconds_in_wait,
    BlockedSQLText |-> j.blocked_sql.sql_text ]

\* QueryBlockingSessions: ORDER BY blocked.seconds_in_wait DESC
QueryBlockingSessions(db) ==
  OrderByDesc({ << j.blocked.seconds_in_wait, BlockingSession(j) >> : j \in BlockingJoin(db) })

\* QueryDatabaseInstance: the rows of v$instance
QueryDatabaseInstance(db) == OrderByDesc({ << 0, r >> : r \in db.v_instance })

\* a mapping that fills the result from the end of the service's list
mapBlockingSessionsToGraphQL_Reversed(sessions) ==
  [ i \in DOMAIN sessions |->
      LET x == sessions[Len(sessions) + 1 - i]
      IN [ BlockingSid |-> x.BlockingSID, BlockingSerial |-> x.BlockingSerial,
           BlockingStatus |-> x.BlockingStatus, BlockedSid |-> x.BlockedSID,
           BlockedSerial |-> x.BlockedSerial,
           BlockedDurationSeconds |-> x.BlockedDurationSeconds ] ]

\* mapBlockingSessionsToGraphQL: element i of the result is element i of the
\* service's list
mapBlockingSessionsToGraphQL(sessions) ==
  [ i \in DOMAIN sessions |->
      [ BlockingSid |-> sessions[i].BlockingSID,
        BlockingSerial |-> sessions[i].BlockingSerial,
        BlockingStatus |-> sessions[i].BlockingStatus,
        BlockedSid |-> sessions[i].BlockedSID,
        BlockedSerial |-> sessions[i].BlockedSerial,
        BlockedDurationSeconds |-> sessions[i].BlockedDurationSeconds ] ]

(***************************************************************************)
(* Calls of auditLogRepository.Create in flight.                           *)
(***************************************************************************)
\* the requests that write audit entries at the same time
Writers == 1 .. MaxWriters

\* an AuditLog with every field at its zero value
NoLog == AuditLog(NULL, "", "", "", NULL, "", NULL)

\* a request that is not in Create
NotCreating == [ pc |-> "idle", log |-> NoLog, row |-> AuditRow(<< >>, NoLog, 0), err |-> "nil" ]

(***************************************************************************)
(* State.                                                                  *)
(*   users       auth.users: id -> row                                     *)
(*   user_roles  auth.user_roles: set of <<user id, role id>>              *)
(*   audit_logs  audit.logs in insertion order                             *)
(*   issued      the LoginResponses handed to clients                      *)
(*   now         the clock, in ticks                                       *)
(*   last        what the last call returned and did                       *)
(*   oracle      the monitored database: v$session, v$sql, v$instance      *)
(*   creating    the calls of auditLogRepository.Create in flight           *)
(*   service     the AuthService as constructed: secret, lifetime, issuer   *)
(*   session_snapshots  monitoring.session_snapshots in insertion order     *)
(*   recording   the calls of the metrics repositories' Create in flight    *)
(***************************************************************************)
\* the observation of a call: the operation, its header and argument, whether
\* the middleware ran the handler, the user context, the error returned, the
\* LoginResponse, how many audit rows the call added and how its audit write went
Observation(op, hdr, arg, next, ctx, err, token, expiresAt, audited, auditErr) ==
  [ op |-> op, hdr |-> hdr, arg |-> arg, next |-> next, ctx |-> ctx, err |-> err,
    Token |-> token, ExpiresAt |-> expiresAt, audited |-> audited, auditErr |-> auditErr ]

Idle == Observation("", NoHeader, "", FALSE, NoUser, "nil", NoToken, 0, 0, "none")

\* a call of a service method: no header, no user context
Returned(op, arg, err, audited, auditErr) ==
  Observation(op, NoHeader, arg, FALSE, NoUser, err, NoToken, 0, audited, auditErr)

\* how the audit write of a call went
AuditErr(ok) == IF ok THEN "ok" ELSE "failed"

\* the platform's own database after scripts/init-db and the creation of two users: the
\* administrator with the role ADMIN, and one operator with the roles DBA and
\* READ_ONLY; nobody has logged in, nothing is audited yet
AccessInit ==
  /\ users = [ u \in UserIDs |->
                 [ Username |-> IF u = "u-admin" THEN "admin" ELSE "bob",
                   PasswordHash |-> HashPassword(IF u = "u-admin" THEN "admin123" ELSE "bob-pw"),
                   IsActive |-> TRUE,
                   LastLogin |-> -1 ] ]
  /\ user_roles = { << "u-admin", "r-admin" >>, << "u-bob", "r-dba" >>,
                    << "u-bob", "r-read-only" >> }
  /\ audit_logs = << >>
  /\ issued = { }
  /\ now = 0
  /\ last = Idle

\* no Create of a metrics repository in flight: no transaction, no batch
NotRecording == [ pc |-> "idle", kind |-> "", metrics |-> << >>, rows |-> << >> ]

\* the service built from a configuration that Load accepts, and no
\* snapshot stored yet
Started ==
  /\ service = NewAuthService(jwtSecret, jwtExpiration, jwtIssuer)
  /\ session_snapshots = << >>
  /\ recording = [ w \in Writers |-> NotRecording ]

\* ... pointed at a database where session 20 waits for session 10
Init ==
  /\ AccessInit
  /\ Started
  /\ oracle = ExampleDatabase
  /\ creating = [ w \in Writers |-> NotCreating ]

\* ... pointed at any of the databases
InitOracle ==
  /\ AccessInit
  /\ Started
  /\ oracle \in Databases
  /\ creating = [ w \in Writers |-> NotCreating ]

\* time passes
Tick ==
  /\ now < MaxTime
  /\ now' = now + 1
  /\ last' = Idle
  /\ UNCHANGED << users, user_roles, audit_logs, issued, oracle, creating, service, session_snapshots, recording >>

(***************************************************************************)
(* What clients send.                                                      *)
(***************************************************************************)
\* the credentials clients try: an operator's own, a wrong password, an
\* unknown user
Credentials ==
  { << "bob", "bob-pw" >>, << "bob", "wrong" >>, << "mallory", "wrong" >> }

\* claims an attacker writes: the administrator, every permission, no expiry
\* within the run
AttackerClaims ==
  [ UserID |-> "u-admin", Username |-> "admin", Roles |-> << "ADMIN" >>,
    Permissions |-> Permissions, ExpiresAt |-> (MaxTime + 2) * TicksPerSecond,
    IssuedAt |-> 0, Issuer |-> jwtIssuer, Subject |-> "admin" ]

\* tokens that Login did not issue: the attacker's claims signed with another
\* secret, or with the configured secret under a method other than HS256, and
\* the claims of an issued token signed again with another secret
ForeignTokens ==
  { [ alg |-> a, claims |-> AttackerClaims, sig |-> Sign(a, OtherSecret, AttackerClaims) ] :
      a \in { "HS256", "HS512" } }
  \cup
  { [ alg |-> a, claims |-> AttackerClaims, sig |-> Sign(a, jwtSecret, AttackerClaims) ] :
      a \in SigningMethods \ { "HS256" } }
  \cup
  { [ alg |-> "HS256", claims |-> i.Token.claims, sig |-> Sign("HS256", OtherSecret, i.Token.claims) ] :
      i \in issued }

IssuedHeaders == { NoHeader } \cup { Bearer(i.Token) : i \in issued }
ForeignHeaders == { BasicHeader, Bearer(MalformedToken) } \cup { Bearer(t) : t \in ForeignTokens }

\* a Login that does not look at is_active
LoginRefusal_ActiveUnchecked(username, password) ==
  LET found == GetByUsername(username)
  IN IF found = { } THEN "user not found"
     ELSE LET u == CHOOSE v \in found : TRUE
          IN IF ~CompareHashAndPassword(users[u].PasswordHash, password)
               THEN "invalid password"
             ELSE ""

(***************************************************************************)
(* AuthService.                                                            *)
(***************************************************************************)
\* why Login refuses, "" when it does not
LoginRefusal(username, password) ==
  LET found == GetByUsername(username)
  IN IF found = { } THEN "user not found"
     ELSE LET u == CHOOSE v \in found : TRUE
          IN IF ~users[u].IsActive THEN "user inactive"
             ELSE IF ~CompareHashAndPassword(users[u].PasswordHash, password)
               THEN "invalid password"
             ELSE ""

\* the error Login returns for a refusal
LoginError(reason) ==
  IF reason = "user inactive" THEN "user account is inactive" ELSE "invalid credentials"

\* the faults of the platform's database a Login can meet: the SELECT of
\* GetByUsername, of GetRolesByUserID or of GetPermissionsByUserID fails, or
\* the UPDATE of UpdateLastLogin fails
LoginFaults == { "none", "user", "roles", "permissions", "lastLogin" }

\* the observation of a Login: what it returned, the credentials it was
\* given and the fault it met
LoginCall(obs, username, password, fault) ==
  obs @@ [ attempt |-> << username, password >>, fault |-> fault ]

\* AuthService.Login; ok is the outcome of the audit INSERT, FALSE on the
\* paths that make none. An error of GetByUsername of any kind is answered
\* as an unknown user; an error of the two later reads is returned without
\* an audit entry; an error of UpdateLastLogin is printed and the login goes on
LoginWith(username, password, ok, fault) ==
  LET reason == IF fault = "user" THEN "user not found"
                ELSE LoginRefusal(username, password)
  IN /\ fault \in LoginFaults
     /\ IF reason # ""
         THEN /\ ok \in CreateOutcomes
              /\ audit_logs' = Create(audit_logs,
                                 AuditLog(NULL, username, "LOGIN", "AUTH", NULL, "FAILURE", reason),
                                 now, ok)
              /\ last' = LoginCall(Returned("Login", username, LoginError(reason),
                                            Len(audit_logs') - Len(audit_logs), AuditErr(ok)),
                                   username, password, fault)
              /\ UNCHANGED << users, user_roles, issued, now, oracle, creating, service, session_snapshots, recording >>
         ELSE IF fault \in { "roles", "permissions" }
         THEN /\ ~ok
              /\ last' = LoginCall(Returned("Login", username,
                                            IF fault = "roles" THEN "failed to get user roles"
                                            ELSE "failed to get user permissions", 0, "none"),
                                   username, password, fault)
              /\ UNCHANGED << users, user_roles, audit_logs, issued, now, oracle, creating, service, session_snapshots, recording >>
         ELSE LET u == CHOOSE v \in GetByUsername(username) : TRUE
                  roles == GetRolesByUserID(user_roles, u)
                  permissions == GetPermissionsByUserID(user_roles, u)
                  expiresAt == now + service.jwtExpiration
                  token == generateJWT(u, users[u].Username, roles, permissions, expiresAt, now)
                  response == [ Token |-> token, ExpiresAt |-> expiresAt, User |-> u ]
              IN /\ ok \in CreateOutcomes
                 /\ Cardinality(issued \cup { response }) <= MaxTokens
                 /\ users' = IF fault = "lastLogin" THEN users
                             ELSE [ users EXCEPT ![u].LastLogin = now ]
                 /\ audit_logs' = Create(audit_logs,
                                    AuditLog(u, username, "LOGIN", "AUTH", NULL, "SUCCESS", NULL),
                                    now, ok)
                 /\ issued' = issued \cup { response }
                 /\ last' = LoginCall(Observation("Login", NoHeader, username, FALSE, NoUser,
                                                  "nil", token, expiresAt,
                                                  Len(audit_logs') - Len(audit_logs),
                                                  AuditErr(ok)),
                                      username, password, fault)
                 /\ UNCHANGED << user_roles, now, oracle, creating, service, session_snapshots, recording >>

\* a Login that meets no fault of the platform's database
Login(username, password, ok) == LoginWith(username, password, ok, "none")

\* the roles CreateUser assigns before the first Assign that fails (the
\* foreign key refuses a role that does not exist), and whether one fails
RECURSIVE AssignedBeforeError(_)
AssignedBeforeError(roleIDs) ==
  IF roleIDs = << >> \/ Head(roleIDs) \notin RoleIDs THEN { }
  ELSE { Head(roleIDs) } \cup AssignedBeforeError(Tail(roleIDs))

AssignFails(roleIDs) == \E i \in DOMAIN roleIDs : roleIDs[i] \notin RoleIDs

\* AuthService.auditUserCreation: the entry
UserCreationLog(userID, username) ==
  AuditLog(userID, username, "CREATE_USER", "USER", userID, "SUCCESS", NULL)

\* AuthService.CreateUser: userRepository.Create (the username is UNIQUE),
\* one Assign for each role and the audit entry, each statement committed on
\* its own; ok is the outcome of the audit INSERT, FALSE on the paths that
\* make none
CreateUser(username, password, roleIDs, ok) ==
  IF GetByUsername(username) # { }
    THEN /\ ~ok
         /\ last' = Returned("CreateUser", << username, roleIDs >>, "failed to create user", 0, "none")
         /\ UNCHANGED << users, user_roles, audit_logs, issued, now, oracle, creating, service, session_snapshots, recording >>
    ELSE /\ NewUserID \notin DOMAIN users
         /\ users' = users @@ (NewUserID :> [ Username |-> username,
                                              PasswordHash |-> HashPassword(password),
                                              IsActive |-> TRUE,
                                              LastLogin |-> -1 ])
         /\ user_roles' = user_roles \cup { << NewUserID, r >> : r \in AssignedBeforeError(roleIDs) }
         /\ IF AssignFails(roleIDs)
              THEN /\ ~ok
                   /\ audit_logs' = audit_logs
                   /\ last' = Returned("CreateUser", << username, roleIDs >>,
                                       "failed to assign role", 0, "none")
              ELSE /\ ok \in CreateOutcomes
                   /\ audit_logs' = Create(audit_logs, UserCreationLog(NewUserID, username), now, ok)
                   /\ last' = Returned("CreateUser", << username, roleIDs >>, "nil",
                                       Len(audit_logs') - Len(audit_logs), AuditErr(ok))
         /\ UNCHANGED << issued, now, oracle, creating, service, session_snapshots, recording >>

\* AuthService.UpdateUser: sets the active flag of an existing user
UpdateUser(userID, isActive) ==
  /\ IF userID \in DOMAIN users
       THEN /\ users' = [ users EXCEPT ![userID].IsActive = isActive ]
            /\ last' = Returned("UpdateUser", userID, "nil", 0, "none")
       ELSE /\ users' = users
            /\ last' = Returned("UpdateUser", userID, "user not found", 0, "none")
  /\ UNCHANGED << user_roles, audit_logs, issued, now, oracle, creating, service, session_snapshots, recording >>

(***************************************************************************)
(* Requests through the middleware and the guard.                          *)
(***************************************************************************)
\* the guard's checks, as the resolvers call them on the request's context
GuardChecks == { "RequireAuth", "RequirePermission", "RequireAnyPermission", "RequireRole" }

GuardResult(check, ctx, arg) ==
  CASE check = "RequireAuth" -> RequireAuth(ctx)
    [] check = "RequirePermission" -> RequirePermission(ctx, arg)
    [] check = "RequireAnyPermission" -> RequireAnyPermission(ctx, arg)
    [] check = "RequireRole" -> RequireRole(ctx, arg)

\* the arguments the checks are called with: permission codes, a role name
\* used as a permission code, alternatives, role names
GuardArgs(check) ==
  CASE check = "RequireAuth" -> { "" }
    [] check = "RequirePermission" -> { "MANAGE_USERS", "VIEW_SESSIONS", "VIEW_TABLESPACES", "ADMIN" }
    [] check = "RequireAnyPermission" -> { << "MANAGE_USERS", "VIEW_SQL" >> }
    [] check = "RequireRole" -> { "DBA" }

\* AuthMiddleware.Middleware, then a handler that starts with one check of the
\* guard (queryResolver.Me: RequireAuth; queryResolver.Users:
\* RequirePermission "MANAGE_USERS"; ...)
Request(hdr, check, arg) ==
  LET mw == Middleware(hdr, now)
  IN /\ last' = IF mw.next
                  THEN Observation(check, hdr, arg, TRUE, mw.ctx, GuardResult(check, mw.ctx, arg),
                                   NoToken, 0, 0, "none")
                  ELSE Observation(check, hdr, arg, FALSE, NoUser, "401", NoToken, 0, 0, "none")
     /\ UNCHANGED << users, user_roles, audit_logs, issued, now, oracle, creating, service, session_snapshots, recording >>

(***************************************************************************)
(* RBACService.                                                            *)
(***************************************************************************)
\* an Assign whose INSERT has no ON CONFLICT clause: the primary key refuses
\* a pair that is assigned already
AssignError_Conflict(userID, roleID) ==
  IF userID \in DOMAIN users /\ roleID \in RoleIDs /\ << userID, roleID >> \notin user_roles
    THEN "nil" ELSE "failed to assign role"

\* userRoleRepository.Assign: INSERT ... ON CONFLICT DO NOTHING; the foreign
\* keys refuse an unknown user or role
AssignError(userID, roleID) ==
  IF userID \in DOMAIN users /\ roleID \in RoleIDs THEN "nil" ELSE "failed to assign role"

Assign(ur, userID, roleID) == ur \cup { << userID, roleID >> }

\* userRoleRepository.Revoke: DELETE; no row affected is an error
RevokeError(ur, userID, roleID) ==
  IF << userID, roleID >> \in ur THEN "nil" ELSE "user role assignment not found"

Revoke(ur, userID, roleID) == ur \ { << userID, roleID >> }

\* the observation of AssignRole and RevokeRole: what the call returned, and
\* whether the user held the role when it was made
RoleCall(op, userID, roleID, err, audited, auditErr) ==
  Returned(op, << userID, roleID >>, err, audited, auditErr)
    @@ [ held |-> << userID, roleID >> \in user_roles ]

\* an AssignRole that takes the assignment back and returns an error when
\* its audit entry cannot be written
AssignRole_AuditOrFail(userID, roleID, assignedBy, ok) ==
  IF AssignError(userID, roleID) # "nil"
    THEN /\ ~ok
         /\ last' = RoleCall("AssignRole", userID, roleID, "failed to assign role", 0, "none")
         /\ UNCHANGED << users, user_roles, audit_logs, issued, now, oracle, creating, service, session_snapshots, recording >>
    ELSE /\ ok \in CreateOutcomes
         /\ user_roles' = IF ok THEN Assign(user_roles, userID, roleID) ELSE user_roles
         /\ audit_logs' = Create(audit_logs,
                            AuditLog(assignedBy, assignedBy, "ASSIGN_ROLE", "USER_ROLE",
                                     roleID, "SUCCESS", NULL),
                            now, ok)
         /\ last' = RoleCall("AssignRole", userID, roleID,
                             IF ok THEN "nil" ELSE "failed to write audit log",
                             Len(audit_logs') - Len(audit_logs), AuditErr(ok))
         /\ UNCHANGED << users, issued, now, oracle, creating, service, session_snapshots, recording >>

\* RBACService.AssignRole; ok is the outcome of the audit INSERT, FALSE on
\* the paths that make none
AssignRole(userID, roleID, assignedBy, ok) ==
  IF AssignError(userID, roleID) # "nil"
    THEN /\ ~ok
         /\ last' = RoleCall("AssignRole", userID, roleID, "failed to assign role", 0, "none")
         /\ UNCHANGED << users, user_roles, audit_logs, issued, now, oracle, creating, service, session_snapshots, recording >>
    ELSE /\ ok \in CreateOutcomes
         /\ user_roles' = Assign(user_roles, userID, roleID)
         /\ audit_logs' = Create(audit_logs,
                            AuditLog(assignedBy, assignedBy, "ASSIGN_ROLE", "USER_ROLE",
                                     roleID, "SUCCESS", NULL),
                            now, ok)
         /\ last' = RoleCall("AssignRole", userID, roleID, "nil",
                             Len(audit_logs') - Len(audit_logs), AuditErr(ok))
         /\ UNCHANGED << users, issued, now, oracle, creating, service, session_snapshots, recording >>

\* RBACService.RevokeRole; ok as for AssignRole
RevokeRole(userID, roleID, revokedBy, ok) ==
  IF RevokeError(user_roles, userID, roleID) # "nil"
    THEN /\ ~ok
         /\ last' = RoleCall("RevokeRole", userID, roleID, "failed to revoke role", 0, "none")
         /\ UNCHANGED << users, user_roles, audit_logs, issued, now, oracle, creating, service, session_snapshots, recording >>
    ELSE /\ ok \in CreateOutcomes
         /\ user_roles' = Revoke(user_roles, userID, roleID)
         /\ audit_logs' = Create(audit_logs,
                            AuditLog(revokedBy, revokedBy, "REVOKE_ROLE", "USER_ROLE",
                                     roleID, "SUCCESS", NULL),
                            now, ok)
         /\ last' = RoleCall("RevokeRole", userID, roleID, "nil",
                             Len(audit_logs') - Len(audit_logs), AuditErr(ok))
         /\ UNCHANGED << users, issued, now, oracle, creating, service, session_snapshots, recording >>

\* RBACService.auditAccessDenied: the entry for a denial
AccessDeniedLog(userID, permission) ==
  AuditLog(userID, userID, "ACCESS_DENIED", "PERMISSION", NULL, "DENIED", permission)

\* RBACService.CheckAccess: the live check, audited when it denies; ok as for
\* AssignRole
CheckAccess(userID, requiredPermission, ok) ==
  IF HasPermission(user_roles, userID, requiredPermission)
    THEN /\ ~ok
         /\ last' = Returned("CheckAccess", << userID, requiredPermission >>, "nil", 0, "none")
         /\ UNCHANGED << users, user_roles, audit_logs, issued, now, oracle, creating, service, session_snapshots, recording >>
    ELSE /\ ok \in CreateOutcomes
         /\ audit_logs' = Create(audit_logs, AccessDeniedLog(userID, requiredPermission), now, ok)
         /\ last' = Returned("CheckAccess", << userID, requiredPermission >>,
                             "access denied: missing permission",
                             Len(audit_logs') - Len(audit_logs), AuditErr(ok))
         /\ UNCHANGED << users, user_roles, issued, now, oracle, creating, service, session_snapshots, recording >>

(***************************************************************************)
(* OracleService: the collector operations.                                *)
(***************************************************************************)
\* the collectors that return a list of rows, and the one that returns a row
ListCollectors ==
  { "GetActiveSessions", "GetAllSessions", "GetSessionsBySchema", "GetBlockingSessions" }

\* the calls that go to the monitored database
OracleCalls == ListCollectors \cup { "GetDatabaseInstance", "KillSession" }

\* the action name a collector audits under, the statement it sends and
\* the error it wraps a failed query in
CollectorAction(op) ==
  CASE op = "GetActiveSessions" -> "GET_ACTIVE_SESSIONS"
    [] op = "GetAllSessions" -> "GET_ALL_SESSIONS"
    [] op = "GetSessionsBySchema" -> "GET_SESSIONS_BY_SCHEMA"
    [] op = "GetBlockingSessions" -> "GET_BLOCKING_SESSIONS"
    [] op = "GetDatabaseInstance" -> "GET_DATABASE_INSTANCE"

Statement(op) ==
  CASE op = "GetActiveSessions" -> [ name |-> "QueryActiveSessions", verb |-> "SELECT", sid |-> NoSession ]
    [] op = "GetAllSessions" -> [ name |-> "QueryAllSessions", verb |-> "SELECT", sid |-> NoSession ]
    [] op = "GetSessionsBySchema" -> [ name |-> "QuerySessionsBySchema", verb |-> "SELECT", sid |-> NoSession ]
    [] op = "GetBlockingSessions" -> [ name |-> "QueryBlockingSessions", verb |-> "SELECT", sid |-> NoSession ]
    [] op = "GetDatabaseInstance" -> [ name |-> "QueryDatabaseInstance", verb |-> "SELECT", sid |-> NoSession ]

QueryError(op) ==
  CASE op = "GetActiveSessions" -> "failed to query active sessions"
    [] op = "GetAllSessions" -> "failed to query all sessions"
    [] op = "GetSessionsBySchema" -> "failed to query sessions by schema"
    [] op = "GetBlockingSessions" -> "failed to query blocking sessions"
    [] op = "GetDatabaseInstance" -> "failed to query database instance"

\* the result sets the statement of a list collector can produce
QueryRows(op, arg, db) ==
  CASE op = "GetActiveSessions" -> QueryActiveSessions(db)
    [] op = "GetAllSessions" -> QueryAllSessions(db)
    [] op = "GetSessionsBySchema" -> QuerySessionsBySchema(db, arg)
    [] op = "GetBlockingSessions" -> QueryBlockingSessions(db)

\* the monitored database after it has executed a statement: a SELECT leaves
\* it as it is, ALTER SYSTEM KILL SESSION ends the session
Execute(db, stmt) ==
  IF stmt.verb = "SELECT" THEN db
  ELSE [ db EXCEPT !.v_session = { x \in @ : x.sid # stmt.sid } ]

RECURSIVE ExecuteAll(_, _)
ExecuteAll(db, stmts) ==
  IF stmts = << >> THEN db ELSE ExecuteAll(Execute(db, Head(stmts)), Tail(stmts))

\* OracleService.auditQuerySuccess and auditQueryFailure: the entries
auditQuerySuccess(userID, action, count) ==
  AuditLog(userID, userID, action, "ORACLE_QUERY", "count:" \o ToString(count), "SUCCESS", NULL)

auditQueryFailure(userID, action, err) ==
  AuditLog(userID, userID, action, "ORACLE_QUERY", NULL, "FAILURE", err)

\* what can go wrong in a collector call: the query fails, the request is
\* canceled before the query returns, a row fails to scan, the iteration over
\* the rows ends with an error, the request is canceled while rows are read
Faults == { "none", "query", "canceled-query", "scan", "rows", "canceled-rows" }

\* a canceled context fails every later ExecContext, the audit INSERT included
Canceled(fault) == fault \in { "canceled-query", "canceled-rows" }

\* the observation of a call that goes to the monitored database: the rows
\* returned to the caller, the result set the query produced, what went
\* wrong, and the statements sent
Collected(obs, result, rows, fault, statements) ==
  [ result |-> result, rows |-> rows, fault |-> fault, statements |-> statements ] @@ obs

\* OracleService.GetActiveSessions, GetAllSessions, GetSessionsBySchema and
\* GetBlockingSessions; k rows are read before fault strikes, ok is the outcome
\* of the audit INSERT
Collect(op, userID, arg, fault, k, ok) ==
  /\ op \in ListCollectors
  /\ Canceled(fault) => ~ok
  /\ oracle' = Execute(oracle, Statement(op))
  /\ UNCHANGED << users, user_roles, issued, now, creating, service, session_snapshots, recording >>
  /\ IF fault \in { "query", "canceled-query" }
       THEN /\ k = 0
            /\ ok \in CreateOutcomes
            /\ audit_logs' = Create(audit_logs,
                               auditQueryFailure(userID, CollectorAction(op), fault), now, ok)
            /\ last' = Collected(Returned(op, << userID, arg >>, QueryError(op),
                                          Len(audit_logs') - Len(audit_logs), AuditErr(ok)),
                                 << >>, << >>, fault, << Statement(op) >>)
       ELSE \E rows \in QueryRows(op, arg, oracle) :
              IF fault = "scan"
                THEN /\ k < Len(rows)
                     /\ ~ok
                     /\ audit_logs' = audit_logs
                     /\ last' = Collected(Returned(op, << userID, arg >>, "failed to scan", 0, "none"),
                                          << >>, rows, fault, << Statement(op) >>)
                ELSE /\ IF fault = "none" THEN k = Len(rows) ELSE k <= Len(rows)
                     /\ ok \in CreateOutcomes
                     /\ audit_logs' = Create(audit_logs,
                                        auditQuerySuccess(userID, CollectorAction(op), k), now, ok)
                     /\ last' = Collected(Returned(op, << userID, arg >>, "nil",
                                                   Len(audit_logs') - Len(audit_logs), AuditErr(ok)),
                                          SubSeq(rows, 1, k), rows, fault, << Statement(op) >>)

\* OracleService.GetDatabaseInstance: QueryRowContext and Scan; a scan error
\* and a query error arrive as the same err, sql.ErrNoRows apart
GetDatabaseInstance(userID, fault, ok) ==
  LET op == "GetDatabaseInstance"
  IN /\ fault \in { "none", "query", "canceled-query", "scan" }
     /\ Canceled(fault) => ~ok
     /\ oracle' = Execute(oracle, Statement(op))
     /\ UNCHANGED << users, user_roles, issued, now, creating, service, session_snapshots, recording >>
     /\ \E rows \in QueryDatabaseInstance(oracle) :
          IF fault = "none" /\ rows = << >>
            THEN /\ ~ok
                 /\ audit_logs' = audit_logs
                 /\ last' = Collected(Returned(op, << userID, "" >>, "no instance information found",
                                               0, "none"),
                                      << >>, rows, fault, << Statement(op) >>)
          ELSE IF fault = "none"
            THEN /\ ok \in CreateOutcomes
                 /\ audit_logs' = Create(audit_logs,
                                    auditQuerySuccess(userID, CollectorAction(op), 1), now, ok)
                 /\ last' = Collected(Returned(op, << userID, "" >>, "nil",
                                               Len(audit_logs') - Len(audit_logs), AuditErr(ok)),
                                      << rows[1] >>, rows, fault, << Statement(op) >>)
          ELSE /\ ok \in CreateOutcomes
               /\ audit_logs' = Create(audit_logs,
                                  auditQueryFailure(userID, CollectorAction(op), fault), now, ok)
               /\ last' = Collected(Returned(op, << userID, "" >>, QueryError(op),
                                             Len(audit_logs') - Len(audit_logs), AuditErr(ok)),
                                    << >>, << >>, fault, << Statement(op) >>)

\* a KillSession that executes the statement its message names
KillSessionStatements_Alter(sid, serial) ==
  << [ name |-> "KillSession", verb |-> "ALTER SYSTEM KILL SESSION", sid |-> sid ] >>

\* the statements mutationResolver.KillSession sends to the monitored database
KillSessionStatements(sid, serial) == << >>

\* mutationResolver.KillSession behind the middleware
KillSession(hdr, sid, serial) ==
  LET mw == Middleware(hdr, now)
      denied == RequirePermission(mw.ctx, "SESSION_KILL")
      stmts == IF mw.next /\ denied = "nil" THEN KillSessionStatements(sid, serial) ELSE << >>
  IN /\ oracle' = ExecuteAll(oracle, stmts)
     /\ last' = Collected(IF ~mw.next
                            THEN Observation("KillSession", hdr, << sid, serial >>, FALSE, NoUser,
                                             "401", NoToken, 0, 0, "none")
                          ELSE Observation("KillSession", hdr, << sid, serial >>, TRUE, mw.ctx,
                                           IF denied # "nil" THEN denied ELSE "not implemented",
                                           NoToken, 0, 0, "none"),
                          << >>, << >>, "none", stmts)
     /\ UNCHANGED << users, user_roles, audit_logs, issued, now, creating, service, session_snapshots, recording >>

(***************************************************************************)
(* auditLogRepository.Create, called by several requests at once.          *)
(***************************************************************************)
\* uuid.New() in the call of request w: an id no other call draws
NewUUID(w) == w

\* a Create that formats the metadata into a buffer shared by all calls: the
\* metadata sent is that of the call that formatted last
Prepared_SharedBuffer(w, log, t) ==
  LET others == { v \in Writers : v # w /\ creating[v].pc = "prepared" }
      row == [ AuditRow(<< >>, log, t) EXCEPT !.id = NewUUID(w) ]
  IN IF others = { } THEN row
     ELSE [ row EXCEPT !.metadata = creating[CHOOSE v \in others : TRUE].row.metadata ]

\* the arguments of ExecContext that a call computes from the log it was
\* given: locals of the call, no state shared between calls
Prepared(w, log, t) == [ AuditRow(<< >>, log, t) EXCEPT !.id = NewUUID(w) ]

\* request w enters Create with its log and computes the arguments
BeginCreate(w, log) ==
  /\ creating[w].pc = "idle"
  /\ creating' = [ creating EXCEPT ![w] = [ pc |-> "prepared", log |-> log,
                                            row |-> Prepared(w, log, now), err |-> "nil" ] ]
  /\ UNCHANGED << users, user_roles, audit_logs, issued, now, last, oracle, service, session_snapshots, recording >>

\* the INSERT of request w: one statement, which adds the row or fails, and
\* Create returns
ExecInsert(w, ok) ==
  /\ creating[w].pc = "prepared"
  /\ ok \in CreateOutcomes
  /\ audit_logs' = IF ok THEN Append(audit_logs, creating[w].row) ELSE audit_logs
  /\ creating' = [ creating EXCEPT ![w].pc = "done",
                                   ![w].err = IF ok THEN "nil" ELSE "failed to create audit log" ]
  /\ UNCHANGED << users, user_roles, issued, now, last, oracle, service, session_snapshots, recording >>

(***************************************************************************)
(* auditLogRepository.List and Count.                                      *)
(***************************************************************************)
\* a time filter that is not set (a nil *time.Time)
NoTime == -1

\* AuditLogFilter
AuditLogFilter(userID, action, resourceType, status, startTime, endTime, limit, offset) ==
  [ UserID |-> userID, Action |-> action, ResourceType |-> resourceType, Status |-> status,
    StartTime |-> startTime, EndTime |-> endTime, Limit |-> limit, Offset |-> offset ]

\* the WHERE clause List and Count build from a filter
Where(row, filter) ==
  /\ filter.UserID # NULL => row.user_id = filter.UserID
  /\ filter.Action # NULL => row.action = filter.Action
  /\ filter.ResourceType # NULL => row.target = filter.ResourceType
  /\ filter.StartTime # NoTime => row.created_at >= filter.StartTime
  /\ filter.EndTime # NoTime => row.created_at <= filter.EndTime

\* the AuditLog List scans from a row
ScannedLog(row) ==
  [ ID |-> row.id, UserID |-> row.user_id, Username |-> row.username, Action |-> row.action,
    ResourceType |-> row.target, ResourceID |-> NULL, OracleSchema |-> NULL,
    Status |-> StatusOf(row), ErrorMessage |-> NULL, Timestamp |-> row.created_at ]

\* LIMIT and OFFSET, each applied when greater than zero
Page(logs, limit, offset) ==
  LET upto == IF limit > 0 /\ offset + limit < Len(logs) THEN offset + limit ELSE Len(logs)
  IN SubSeq(logs, offset + 1, upto)

\* auditLogRepository.List: the lists the query can return, ORDER BY
\* created_at DESC
List(logs, filter) ==
  { Page(ordered, filter.Limit, filter.Offset) :
      ordered \in OrderByDesc({ << logs[i].created_at, ScannedLog(logs[i]) >> :
                                  i \in { j \in DOMAIN logs : Where(logs[j], filter) } }) }

\* auditLogRepository.Count: SELECT COUNT(*) with the same WHERE clause
Count(logs, filter) == Cardinality({ i \in DOMAIN logs : Where(logs[i], filter) })

\* the observation of a read of the audit log
Listed(obs, result, count) == [ result |-> result, count |-> count ] @@ obs

\* a caller reads the audit log with List
ListAuditLogs(filter) ==
  /\ \E result \in List(audit_logs, filter) :
       last' = Listed(Returned("List", filter, "nil", 0, "none"), result, Len(result))
  /\ UNCHANGED << users, user_roles, audit_logs, issued, now, oracle, creating, service, session_snapshots, recording >>

\* auditLogRepository.GetByID: the entry scanned from the row with the id,
\* and the error when there is none
GetByID(logs, id) ==
  LET found == { i \in DOMAIN logs : logs[i].id = id }
  IN IF found = { } THEN [ log |-> << >>, err |-> "audit log not found" ]
     ELSE [ log |-> << ScannedLog(logs[CHOOSE i \in found : TRUE]) >>, err |-> "nil" ]

\* a caller reads one entry of the audit log with GetByID
GetAuditLogByID(id) ==
  /\ last' = Listed(Returned("GetByID", id, GetByID(audit_logs, id).err, 0, "none"),
                    GetByID(audit_logs, id).log, Len(GetByID(audit_logs, id).log))
  /\ UNCHANGED << users, user_roles, audit_logs, issued, now, oracle, creating, service, session_snapshots, recording >>

\* a caller counts entries of the audit log with Count
CountAuditLogs(filter) ==
  /\ last' = Listed(Returned("Count", filter, "nil", 0, "none"), << >>, Count(audit_logs, filter))
  /\ UNCHANGED << users, user_roles, audit_logs, issued, now, oracle, creating, service, session_snapshots, recording >>

(***************************************************************************)
(* The resolvers that read the monitored database.                         *)
(***************************************************************************)
\* the query resolvers that call OracleService
Resolvers == { "Sessions", "ActiveSessions", "BlockingSessions", "DatabaseInstance" }

\* the check of the guard a resolver starts with, and its argument
ResolverCheck(resolver) ==
  IF resolver = "DatabaseInstance" THEN "RequireAuth" ELSE "RequirePermission"

ResolverPermission(resolver) ==
  CASE resolver = "Sessions" -> "VIEW_SESSIONS"
    [] resolver = "ActiveSessions" -> "VIEW_SESSIONS"
    [] resolver = "BlockingSessions" -> "VIEW_LOCKS"
    [] resolver = "DatabaseInstance" -> ""

\* the collector a resolver calls, and the error it wraps the collector's in
ResolverCollector(resolver) ==
  CASE resolver = "Sessions" -> "GetAllSessions"
    [] resolver = "ActiveSessions" -> "GetActiveSessions"
    [] resolver = "BlockingSessions" -> "GetBlockingSessions"
    [] resolver = "DatabaseInstance" -> "GetDatabaseInstance"

ResolverError(resolver) ==
  CASE resolver = "Sessions" -> "failed to get sessions"
    [] resolver = "ActiveSessions" -> "failed to get active sessions"
    [] resolver = "BlockingSessions" -> "failed to get blocking sessions"
    [] resolver = "DatabaseInstance" -> "failed to get database instance"

\* a query resolver behind the middleware: the check of the guard, then the
\* collector with the caller's id, its query succeeding; ok is the outcome of
\* the audit INSERT, FALSE on the paths that make none
Resolve(hdr, resolver, ok) ==
  LET mw == Middleware(hdr, now)
      denied == GuardResult(ResolverCheck(resolver), mw.ctx, ResolverPermission(resolver))
      op == ResolverCollector(resolver)
  IN IF ~mw.next \/ denied # "nil"
       THEN /\ ~ok
            /\ last' = Collected(IF ~mw.next
                                   THEN Observation(resolver, hdr, "", FALSE, NoUser, "401",
                                                    NoToken, 0, 0, "none")
                                 ELSE Observation(resolver, hdr, "", TRUE, mw.ctx, denied,
                                                  NoToken, 0, 0, "none"),
                                 << >>, << >>, "none", << >>)
            /\ UNCHANGED << users, user_roles, audit_logs, issued, now, oracle, creating, service, session_snapshots, recording >>
     ELSE /\ oracle' = Execute(oracle, Statement(op))
          /\ UNCHANGED << users, user_roles, issued, now, creating, service, session_snapshots, recording >>
          /\ \E rows \in IF op = "GetDatabaseInstance" THEN QueryDatabaseInstance(oracle)
                         ELSE QueryRows(op, "", oracle) :
               IF op = "GetDatabaseInstance" /\ rows = << >>
                 THEN /\ ~ok
                      /\ audit_logs' = audit_logs
                      /\ last' = Collected(Observation(resolver, hdr, "", TRUE, mw.ctx,
                                                       ResolverError(resolver), NoToken, 0, 0, "none"),
                                           << >>, rows, "none", << Statement(op) >>)
               ELSE /\ ok \in CreateOutcomes
                    /\ audit_logs' = Create(audit_logs,
                                            auditQuerySuccess(mw.ctx.UserID, CollectorAction(op),
                                                              Len(rows)),
                                            now, ok)
                    /\ last' = Collected(Observation(resolver, hdr, "", TRUE, mw.ctx, "nil",
                                                     NoToken, 0, Len(audit_logs') - Len(audit_logs),
                                                     AuditErr(ok)),
                                         rows, rows, "none", << Statement(op) >>)

(***************************************************************************)
(* The metrics repositories over monitoring.session_snapshots.              *)
(***************************************************************************)
\* the snapshots the collectors hand to Create
SessionMetrics ==
  { [ OracleSID |-> 10, OracleSerial |-> 1, SchemaName |-> "APP", Status |-> "ACTIVE",
      BlockingSession |-> NoSession ],
    [ OracleSID |-> 20, OracleSerial |-> 2, SchemaName |-> "HR", Status |-> "INACTIVE",
      BlockingSession |-> 10 ] }

TablespaceMetrics == { [ TablespaceName |-> "USERS", UsagePercentage |-> 80 ] }

QueryMetrics == { [ SQLID |-> "sql-1", ElapsedTimeMs |-> 5 ] }

\* the row one iteration of Create inserts: sessionMetricsRepository.Create
\* stores the two counts and sid, serial and status as raw_data,
\* tablespaceMetricsRepository.Create stores name and usage as raw_data, both
\* in monitoring.session_snapshots with oracle_db 'default'
SnapshotRow(kind, metric, id, t) ==
  IF kind = "session"
    THEN [ id |-> id, oracle_db |-> "default", snapshot_time |-> t,
           active_sessions |-> IF metric.Status = "ACTIVE" THEN 1 ELSE 0,
           blocked_sessions |-> IF metric.BlockingSession # NoSession THEN 1 ELSE 0,
           raw_data |-> [ sid |-> metric.OracleSID, serial |-> metric.OracleSerial,
                          status |-> metric.Status ] ]
    ELSE [ id |-> id, oracle_db |-> "default", snapshot_time |-> t,
           active_sessions |-> 0, blocked_sessions |-> 0,
           raw_data |-> [ tablespace |-> metric.TablespaceName,
                          usage |-> metric.UsagePercentage ] ]

\* uuid.New(): an id no row has, stored or pending; the model names it by
\* the writer and the count of the writer's rows
SnapshotIDs ==
  { session_snapshots[i].id : i \in DOMAIN session_snapshots }
    \cup UNION { { recording[w].rows[i].id : i \in DOMAIN recording[w].rows } : w \in Writers }

NewSnapshotID(w) == << w, Cardinality({ id \in SnapshotIDs : id[1] = w }) + 1 >>

\* the observation of a call of a metrics repository
MetricsCall(op, kind, arg, err, result) ==
  Returned(op, arg, err, 0, "none") @@ [ kind |-> kind, result |-> result ]

\* Create with an empty batch returns nil at once; queryMetricsRepository.Create
\* returns nil for every batch and stores nothing
CreateNothing(kind, metrics) ==
  /\ kind = "query" \/ metrics = << >>
  /\ last' = MetricsCall("Create", kind, metrics, "nil", << >>)
  /\ UNCHANGED << users, user_roles, audit_logs, issued, now, oracle, creating, service, session_snapshots, recording >>

\* Create of the session or tablespace repository, up to BeginTx; ok is the
\* outcome of BeginTx
BeginTx(w, kind, metrics, ok) ==
  /\ kind \in { "session", "tablespace" }
  /\ metrics # << >>
  /\ recording[w].pc = "idle"
  /\ IF ok
       THEN /\ recording' = [ recording EXCEPT ![w] =
                                [ pc |-> "open", kind |-> kind, metrics |-> metrics,
                                  rows |-> << >> ] ]
            /\ UNCHANGED last
       ELSE /\ last' = MetricsCall("Create", kind, metrics, "failed to begin transaction", << >>)
            /\ UNCHANGED recording
  /\ UNCHANGED << users, user_roles, audit_logs, issued, now, oracle, creating, service, session_snapshots >>

\* one iteration of the loop of Create: the row gets a new id and the clock's
\* reading, and is inserted inside the transaction; when the INSERT fails
\* Create returns and the deferred Rollback drops the rows of the call
ExecSnapshotInsert(w, ok) ==
  /\ recording[w].pc = "open"
  /\ Len(recording[w].rows) < Len(recording[w].metrics)
  /\ LET r == recording[w]
         row == SnapshotRow(r.kind, r.metrics[Len(r.rows) + 1], NewSnapshotID(w), now)
     IN IF ok
          THEN /\ recording' = [ recording EXCEPT ![w].rows = Append(r.rows, row) ]
               /\ UNCHANGED last
          ELSE /\ recording' = [ recording EXCEPT ![w] = NotRecording ]
               /\ last' = MetricsCall("Create", r.kind, r.metrics,
                                      "failed to insert metric", << >>)
  /\ UNCHANGED << users, user_roles, audit_logs, issued, now, oracle, creating, service, session_snapshots >>

\* tx.Commit at the end of Create: the rows of the call become visible
\* together, or none does
CommitTx(w, ok) ==
  /\ recording[w].pc = "open"
  /\ Len(recording[w].rows) = Len(recording[w].metrics)
  /\ ok => Len(session_snapshots) + Len(recording[w].rows) <= MaxSnapshots
  /\ session_snapshots' = IF ok THEN session_snapshots \o recording[w].rows
                          ELSE session_snapshots
  /\ last' = MetricsCall("Create", recording[w].kind, recording[w].metrics,
                         IF ok THEN "nil" ELSE "failed to commit transaction", << >>)
  /\ recording' = [ recording EXCEPT ![w] = NotRecording ]
  /\ UNCHANGED << users, user_roles, audit_logs, issued, now, oracle, creating, service >>

\* the SessionMetric that sessionMetricsRepository.GetByTimeRange builds from
\* a row: Scan fills ID and CapturedAt, the other columns go to locals that
\* are dropped, the remaining fields keep their zero values
ScannedSessionMetric(row) ==
  [ ID |-> row.id, CapturedAt |-> row.snapshot_time, OracleSID |-> 0, OracleSerial |-> 0,
    SchemaName |-> "", Status |-> "", BlockingSession |-> NoSession ]

\* sessionMetricsRepository.GetByTimeRange: WHERE snapshot_time BETWEEN start
\* AND end ORDER BY snapshot_time DESC, over every row of the table
GetByTimeRange(rows, start, end) ==
  OrderByDesc({ << rows[i].snapshot_time, ScannedSessionMetric(rows[i]) >> :
                  i \in { j \in DOMAIN rows :
                            rows[j].snapshot_time >= start /\ rows[j].snapshot_time <= end } })

\* sessionMetricsRepository.GetBySchema: the schema is not looked at
GetBySchema(rows, schema, start, end) == GetByTimeRange(rows, start, end)

\* tablespaceMetricsRepository.GetLatest, GetByTablespaceName, GetByTimeRange
\* and queryMetricsRepository.GetBySQLID, GetByTimeRange: an empty slice
GetLatest(rows) == { << >> }

GetByTablespaceName(rows, name, start, end) == { << >> }

TablespaceGetByTimeRange(rows, start, end) == { << >> }

GetBySQLID(rows, sqlID, start, end) == { << >> }

QueryGetByTimeRange(rows, start, end) == { << >> }

\* what a read of a metrics repository returns
MetricsRead(op, kind, target, start, end) ==
  CASE op = "GetByTimeRange" /\ kind = "session" -> GetByTimeRange(session_snapshots, start, end)
    [] op = "GetBySchema" -> GetBySchema(session_snapshots, target, start, end)
    [] op = "GetLatest" -> GetLatest(session_snapshots)
    [] op = "GetByTablespaceName" -> GetByTablespaceName(session_snapshots, target, start, end)
    [] op = "GetByTimeRange" /\ kind = "tablespace" ->
         TablespaceGetByTimeRange(session_snapshots, start, end)
    [] op = "GetBySQLID" -> GetBySQLID(session_snapshots, target, start, end)
    [] op = "GetByTimeRange" /\ kind = "query" ->
         QueryGetByTimeRange(session_snapshots, start, end)

\* a caller reads snapshots back
ReadMetrics(op, kind, target, start, end) ==
  /\ \E result \in MetricsRead(op, kind, target, start, end) :
       last' = MetricsCall(op, kind, << target, start, end >>, "nil", result)
  /\ UNCHANGED << users, user_roles, audit_logs, issued, now, oracle, creating, service, session_snapshots, recording >>

(***************************************************************************)
(* Specifications.                                                         *)
(***************************************************************************)
\* the users and roles the administration calls name, and who makes them
ManagedUsers == { "u-bob" }
ManagedRoles == { "r-dba", UnknownRoleID }
Administrators == { "u-admin" }

\* the checks of the guard that decide on permissions
PermissionChecks == { "RequirePermission", "RequireAnyPermission" }

\* the credentials of the two operators
GoodCredentials == { << "admin", "admin123" >>, << "bob", "bob-pw" >> }

\* the token service, the role administration and the guard over time, with
\* clients that present what Login gave them, while the audit store is
\* unreachable (every INSERT into audit.logs fails)
Next ==
  \/ Tick
  \/ \E c \in GoodCredentials : Login(c[1], c[2], FALSE)
  \/ \E userID \in ManagedUsers, isActive \in BOOLEAN : UpdateUser(userID, isActive)
  \/ \E userID \in ManagedUsers, roleID \in ManagedRoles, by \in Administrators :
       AssignRole(userID, roleID, by, FALSE)
  \/ \E userID \in ManagedUsers, roleID \in ManagedRoles, by \in Administrators :
       RevokeRole(userID, roleID, by, FALSE)
  \/ \E hdr \in IssuedHeaders, check \in GuardChecks :
       \E arg \in GuardArgs(check) : Request(hdr, check, arg)

Spec == Init /\ [][Next]_vars

\* every operation that writes to audit.logs, and the guard, at one instant;
\* each INSERT into audit.logs succeeds or fails
NextAudit ==
  \/ \E c \in Credentials, ok \in BOOLEAN : Login(c[1], c[2], ok)
  \/ \E userID \in ManagedUsers, isActive \in BOOLEAN : UpdateUser(userID, isActive)
  \/ \E userID \in ManagedUsers, roleID \in ManagedRoles, by \in Administrators, ok \in BOOLEAN :
       AssignRole(userID, roleID, by, ok)
  \/ \E userID \in ManagedUsers, roleID \in ManagedRoles, by \in Administrators, ok \in BOOLEAN :
       RevokeRole(userID, roleID, by, ok)
  \/ \E userID \in UserIDs, p \in { "MANAGE_USERS", "VIEW_SESSIONS" }, ok \in BOOLEAN :
       CheckAccess(userID, p, ok)
  \/ \E hdr \in IssuedHeaders, check \in PermissionChecks :
       \E arg \in GuardArgs(check) : Request(hdr, check, arg)

SpecAudit == Init /\ [][NextAudit]_vars

\* the token service and the guard over time, with clients that present
\* anything, while the audit store is unreachable
NextClients ==
  \/ Tick
  \/ \E c \in GoodCredentials : Login(c[1], c[2], FALSE)
  \/ \E hdr \in IssuedHeaders \cup ForeignHeaders, check \in GuardChecks :
       \E arg \in GuardArgs(check) : Request(hdr, check, arg)

SpecClients == Init /\ [][NextClients]_vars

\* the filters the audit log is read with
AuditLogFilters ==
  { AuditLogFilter(u, NULL, NULL, st, t1, t2, 0, 0) :
      u \in { NULL, "u-admin" }, st \in { NULL, "SUCCESS" },
      t1 \in { NoTime, 1 }, t2 \in { NoTime, 1 } }
    \cup { AuditLogFilter(NULL, "LOGIN", NULL, NULL, NoTime, NoTime, 0, 0),
           AuditLogFilter(NULL, NULL, "AUTH", NULL, NoTime, NoTime, 0, 0),
           AuditLogFilter(NULL, NULL, NULL, NULL, NoTime, NoTime, 1, 0),
           AuditLogFilter(NULL, NULL, NULL, NULL, NoTime, NoTime, 1, 1) }

\* entries are written over time (a refused Login, a role assigned by the
\* administrator, a denied CheckAccess) and the audit log is read
NextList ==
  \/ Tick
  \/ Login("bob", "wrong", TRUE)
  \/ \E userID \in ManagedUsers, by \in Administrators : AssignRole(userID, "r-dba", by, TRUE)
  \/ \E userID \in ManagedUsers : CheckAccess(userID, "MANAGE_USERS", TRUE)
  \/ \E filter \in AuditLogFilters : ListAuditLogs(filter)
  \/ \E filter \in AuditLogFilters : CountAuditLogs(filter)

SpecList == Init /\ [][NextList]_vars

\* the entries concurrent requests write
ConcurrentLogs ==
  { auditQuerySuccess("u-bob", "GET_ACTIVE_SESSIONS", 1),
    AuditLog(NULL, "mallory", "LOGIN", "AUTH", NULL, "FAILURE", "user not found"),
    AccessDeniedLog("u-bob", "MANAGE_USERS") }

\* requests write audit entries at the same time, in any interleaving
NextConcurrent ==
  \/ Tick
  \/ \E w \in Writers, log \in ConcurrentLogs : BeginCreate(w, log)
  \/ \E w \in Writers, ok \in BOOLEAN : ExecInsert(w, ok)

SpecConcurrent == Init /\ [][NextConcurrent]_vars

\* entries are passed to Create and read back with GetByID and List
ReadBackFilters == { AuditLogFilter(NULL, NULL, NULL, NULL, NoTime, NoTime, 0, 0) }

NextReadBack ==
  \/ Tick
  \/ \E w \in Writers, log \in ConcurrentLogs : BeginCreate(w, log)
  \/ \E w \in Writers, ok \in BOOLEAN : ExecInsert(w, ok)
  \/ \E w \in Writers : GetAuditLogByID(NewUUID(w))
  \/ \E filter \in ReadBackFilters : ListAuditLogs(filter)

SpecReadBack == Init /\ [][NextReadBack]_vars

\* callers whose roles are taken away log in and call the resolvers that
\* read the monitored database, while the audit store is unreachable
NextResolvers ==
  \/ Tick
  \/ \E c \in GoodCredentials : Login(c[1], c[2], FALSE)
  \/ \E userID \in ManagedUsers, roleID \in { "r-dba", "r-read-only" }, by \in Administrators :
       RevokeRole(userID, roleID, by, FALSE)
  \/ \E hdr \in IssuedHeaders, resolver \in Resolvers : Resolve(hdr, resolver, FALSE)

SpecResolvers == Init /\ [][NextResolvers]_vars

\* the values of JWT_SECRET and JWT_EXPIRATION a deployment may set: unset,
\* too short, long enough; unset, no duration, zero, negative, below one
\* second, one and two seconds
Secrets == { "", "short-secret", jwtSecret }

ExpirationTexts == { "", "soon", "0s", "-1s", "500ms", "1s", "2s" }

Environments ==
  [ JWT_SECRET : Secrets, JWT_EXPIRATION : ExpirationTexts, JWT_ISSUER : { "" } ]

\* the service NewAuthService returns for the values read from an environment
Constructed(env) ==
  NewAuthService(Load(env).cfg.JWT.Secret, Load(env).cfg.JWT.Expiration,
                 Load(env).cfg.JWT.Issuer)

\* the service was built, as main builds it, from a configuration that Load
\* returned without error
LoadAccepted ==
  \E env \in Environments : Load(env).err = "nil" /\ service = Constructed(env)

\* NewAuthService called with the values of any environment: the constructor
\* itself validates nothing
InitConfig ==
  /\ AccessInit
  /\ service \in { Constructed(env) : env \in Environments }
  /\ session_snapshots = << >>
  /\ recording = [ w \in Writers |-> NotRecording ]
  /\ oracle = ExampleDatabase
  /\ creating = [ w \in Writers |-> NotCreating ]

\* logins over time against a service of any construction
NextConfig ==
  \/ Tick
  \/ \E c \in Credentials : Login(c[1], c[2], FALSE)

SpecConfig == InitConfig /\ [][NextConfig]_vars

\* logins with right and wrong credentials, of an account that is switched
\* off and on, against a platform database and an audit store that work or
\* fail, all within one reading of the clock
NextLogin ==
  \/ \E c \in Credentials, ok \in BOOLEAN, fault \in LoginFaults :
       LoginWith(c[1], c[2], ok, fault)
  \/ \E userID \in ManagedUsers, isActive \in BOOLEAN : UpdateUser(userID, isActive)

SpecLogin == Init /\ [][NextLogin]_vars

\* the batches the snapshot job hands to Create, and the reads of each
\* repository: the whole period or its later part, for a schema, a
\* tablespace or a statement
SessionBatches ==
  { << >> } \cup { << m >> : m \in { x \in SessionMetrics : x.OracleSID = 10 } }
    \cup { << m, n >> : m \in { x \in SessionMetrics : x.OracleSID = 10 },
                        n \in { x \in SessionMetrics : x.OracleSID = 20 } }

TablespaceBatches == { << m >> : m \in TablespaceMetrics }

QueryBatches == { << m >> : m \in QueryMetrics }

Batches(kind) ==
  CASE kind = "session" -> SessionBatches
    [] kind = "tablespace" -> TablespaceBatches
    [] kind = "query" -> QueryBatches

MetricsReads ==
  { << "GetByTimeRange", "session", "" >>, << "GetBySchema", "session", "APP" >>,
    << "GetLatest", "tablespace", "" >>, << "GetByTablespaceName", "tablespace", "USERS" >>,
    << "GetByTimeRange", "tablespace", "" >>, << "GetBySQLID", "query", "sql-1" >>,
    << "GetByTimeRange", "query", "" >> }

Windows == { << 0, MaxTime >>, << 1, MaxTime >> }

\* the snapshot job: Create calls of two writers interleave with each other
\* and with the clock
NextMetrics ==
  \/ Tick
  \/ \E kind \in { "session", "query" } : \E metrics \in Batches(kind) :
       CreateNothing(kind, metrics)
  \/ \E w \in Writers, kind \in { "session", "tablespace" } :
       \E metrics \in Batches(kind) : BeginTx(w, kind, metrics, TRUE)
  \/ \E w \in Writers, ok \in BOOLEAN : ExecSnapshotInsert(w, ok)
  \/ \E w \in Writers, ok \in BOOLEAN : CommitTx(w, ok)

SpecMetrics == Init /\ [][NextMetrics]_vars

\* the snapshot job, one Create after the other, and the readers of the
\* history
NextHistory ==
  \/ Tick
  \/ \E metrics \in Batches("query") : CreateNothing("query", metrics)
  \/ \E kind \in { "session", "tablespace" } :
       \E metrics \in Batches(kind), ok \in BOOLEAN : BeginTx(1, kind, metrics, ok)
  \/ ExecSnapshotInsert(1, TRUE)
  \/ CommitTx(1, TRUE)
  \/ \E read \in MetricsReads, window \in Windows :
       ReadMetrics(read[1], read[2], read[3], window[1], window[2])

SpecHistory == Init /\ [][NextHistory]_vars

\* who looks at the monitored database
Monitors == { "u-bob" }

\* the numbers of rows a collector can have read when its iteration ends
ReadCounts(op, arg) ==
  UNION { 0 .. Len(rows) : rows \in QueryRows(op, arg, oracle) }

\* what the services are called with
ServiceLogins == { << "bob", "bob-pw" >>, << "mallory", "guess" >> }
NewUsers == { "carol", "bob" }
NewUserRoles == { << "r-developer" >>, << "r-developer", UnknownRoleID >> }
ServiceCollectors == { "GetAllSessions" }
ServiceFaults == { "none", "query" }

\* the outcomes of the audit INSERT of a service call
ServiceOutcomes == { ok \in BOOLEAN : ok => Len(audit_logs) < MaxServiceAudit }

\* one call of a service whose audit INSERT has the outcome ok
ServiceCall(ok) ==
  \/ \E c \in ServiceLogins : Login(c[1], c[2], ok)
  \/ \E username \in NewUsers, roleIDs \in NewUserRoles : CreateUser(username, "pw", roleIDs, ok)
  \/ \E userID \in ManagedUsers, roleID \in ManagedRoles, by \in Administrators :
       AssignRole(userID, roleID, by, ok)
  \/ \E userID \in ManagedUsers, roleID \in ManagedRoles, by \in Administrators :
       RevokeRole(userID, roleID, by, ok)
  \/ \E userID \in ManagedUsers, p \in { "MANAGE_USERS", "VIEW_SESSIONS" } :
       CheckAccess(userID, p, ok)
  \/ \E op \in ServiceCollectors, userID \in Monitors, fault \in ServiceFaults :
       \E k \in ReadCounts(op, "") : Collect(op, userID, "", fault, k, ok)
  \/ \E userID \in Monitors, fault \in ServiceFaults : GetDatabaseInstance(userID, fault, ok)

\* the services called directly, with an audit store whose INSERT succeeds or
\* fails, and a monitored database whose queries succeed or fail
NextServices == \E ok \in ServiceOutcomes : ServiceCall(ok)

SpecServices == Init /\ [][NextServices]_vars

\* the collectors with everything that can go wrong in a call, and an audit
\* store whose INSERT succeeds or fails, over time
NextCollectors ==
  \/ Tick
  \/ \E op \in ServiceCollectors, userID \in Monitors, fault \in Faults, ok \in BOOLEAN :
       \E k \in ReadCounts(op, "") : Collect(op, userID, "", fault, k, ok)
  \/ \E userID \in Monitors, fault \in Faults, ok \in BOOLEAN :
       GetDatabaseInstance(userID, fault, ok)

SpecCollectors == Init /\ [][NextCollectors]_vars

\* the schemas sessions are asked for
Schemas == { "APP" }

\* the blocking-session analysis, the session lists, the instance query and KillSession against
\* any of the databases, while the audit store is unreachable
NextOracle ==
  \/ \E c \in GoodCredentials : Login(c[1], c[2], FALSE)
  \/ \E userID \in Monitors, fault \in { "none", "rows" } :
       \E k \in ReadCounts("GetBlockingSessions", "") :
         Collect("GetBlockingSessions", userID, "", fault, k, FALSE)
  \/ \E userID \in Monitors :
       \E k \in ReadCounts("GetActiveSessions", "") :
         Collect("GetActiveSessions", userID, "", "none", k, FALSE)
  \/ \E userID \in Monitors, schemaName \in Schemas :
       \E k \in ReadCounts("GetSessionsBySchema", schemaName) :
         Collect("GetSessionsBySchema", userID, schemaName, "none", k, FALSE)
  \/ \E userID \in Monitors : GetDatabaseInstance(userID, "none", FALSE)
  \/ \E hdr \in IssuedHeaders, sid \in Sids : KillSession(hdr, sid, 1)

SpecOracle == InitOracle /\ [][NextOracle]_vars

(***************************************************************************)
(* Properties.                                                             *)
(***************************************************************************)
\* the permission codes and role names the catalog gives a user now
CatalogPermissions(userID) ==
  UNION { role_permissions[r] : r \in { q \in RoleIDs : << userID, q >> \in user_roles } }

CatalogRoleNames(userID) ==
  { Roles[i].Name : i \in { j \in DOMAIN Roles : << userID, Roles[j].ID >> \in user_roles } }

\* the last call was a guard check that ran in a handler
Checked(check) == last.op = check /\ last.next

\* the last call was a guard check that denied an authenticated caller
Denied == /\ last.op \in { "RequirePermission", "RequireAnyPermission" }
          /\ last.next
          /\ last.err = "insufficient permissions"

\* C1: RequirePermission over the claims of a validated token allows exactly
\* when the required code is an element of the claims' permission list; a
\* role name or another code never stands in for it.
C1_AllowIffMember ==
  (Checked("RequirePermission") /\ last.ctx # NoUser)
    => /\ last.hdr.scheme = "Bearer"
       /\ last.ctx.Permissions = last.hdr.token.claims.Permissions
       /\ (last.err = "nil") <=> (last.arg \in Range(last.hdr.token.claims.Permissions))
       /\ last.err \in { "nil", "insufficient permissions" }

\* a caller holding the role ADMIN asks for the code "ADMIN", which no
\* permission list contains, and is denied
C1_Witness ==
  /\ Checked("RequirePermission")
  /\ last.arg = "ADMIN"
  /\ "ADMIN" \in Range(last.ctx.Roles)
  /\ last.err = "insufficient permissions"

\* C2: every denial of RequirePermission, RequireAnyPermission or CheckAccess
\* adds exactly one entry to the audit log (the audit store accepting the
\* write), and an allowed check adds none.
C2_DenialAudited ==
  /\ (Denied \/ (last.op = "CheckAccess" /\ last.err # "nil" /\ last.auditErr = "ok"))
       => last.audited = 1
  /\ (last.op \in { "RequirePermission", "RequireAnyPermission", "CheckAccess" }
        /\ last.err = "nil") => last.audited = 0

\* C3: the audit entry of a denied check has outcome DENIED, the caller's id
\* as actor and the missing permission code as resource id.
C3_DenialEntry ==
  (last.op = "CheckAccess" /\ last.err # "nil" /\ last.audited = 1)
    => LET row == audit_logs[Len(audit_logs)]
       IN /\ StatusOf(row) = "DENIED"
          /\ row.user_id = last.arg[1]
          /\ row.metadata.resource_id = last.arg[2]

C5_ExpiredNeverValid ==
  \A i \in issued :
    \A E \in { i.ExpiresAt, i.Token.claims.ExpiresAt } :
      now >= E =>
        /\ ValidateToken(i.Token, now).err # "nil"
        /\ (last.hdr = Bearer(i.Token) => ~last.next /\ last.ctx = NoUser)

\* an expired token was presented after its user had logged in again, and
\* was refused
C5_Witness ==
  \E i \in issued, j \in issued :
    /\ now >= i.ExpiresAt
    /\ j.User = i.User
    /\ j.Token.claims.IssuedAt >= i.Token.claims.ExpiresAt
    /\ last.hdr = Bearer(i.Token)
    /\ last.err = "401"

\* C6: whatever roles were revoked since, an unexpired issued token validates
\* and the guard allows exactly the permissions the token carries; the token
\* of a Login carries exactly the permissions of the roles the user then has.
C6_FrozenAtIssuance ==
  /\ \A i \in issued :
       (verifyExpiresAt(i.Token.claims.ExpiresAt, now) /\ last.hdr = Bearer(i.Token))
         => /\ last.next
            /\ last.ctx.UserID = i.User
            /\ last.ctx.Permissions = i.Token.claims.Permissions
            /\ last.op = "RequirePermission"
                 => ((last.err = "nil") <=> (last.arg \in Range(i.Token.claims.Permissions)))
  /\ (last.op = "Login" /\ last.err = "nil")
       => Range(last.Token.claims.Permissions) = CatalogPermissions(last.Token.claims.UserID)

\* bob's token from before the revocation of DBA is allowed VIEW_SESSIONS,
\* which bob's remaining role does not give and bob's newer token lacks
C6_Witness ==
  \E i \in issued, j \in issued :
    /\ i.User = "u-bob" /\ j.User = "u-bob"
    /\ << "u-bob", "r-dba" >> \notin user_roles
    /\ "VIEW_SESSIONS" \notin CatalogPermissions("u-bob")
    /\ Range(j.Token.claims.Permissions) = { "VIEW_TABLESPACES" }
    /\ last.hdr = Bearer(i.Token)
    /\ last.op = "RequirePermission"
    /\ last.arg = "VIEW_SESSIONS"
    /\ last.err = "nil"

\* C7: a token signed with a secret other than the configured one is refused
\* by ValidateToken whatever its claims are, and gives no claims and no user
\* context.
C7_WrongSecretRejected ==
  /\ \A tok \in ForeignTokens :
       (tok.sig.key # jwtSecret /\ tok.sig # NoSignature)
         => /\ ValidateToken(tok, now).err # "nil"
            /\ ValidateToken(tok, now).claims = NoClaims
  /\ (last.hdr.scheme = "Bearer" /\ last.hdr.token.sig.key \notin { jwtSecret, "" })
       => /\ ~last.next
          /\ last.ctx = NoUser
          /\ last.err = "401"

\* the unexpired claims of an issued token, signed again with another secret,
\* were presented and refused
C7_Witness ==
  \E i \in issued :
    /\ verifyExpiresAt(i.Token.claims.ExpiresAt, now)
    /\ last.hdr = Bearer([ alg |-> "HS256", claims |-> i.Token.claims,
                           sig |-> Sign("HS256", OtherSecret, i.Token.claims) ])
    /\ last.err = "401"

\* C8: a token that declares a signing algorithm other than HS256 is refused,
\* also when its signature verifies under the configured secret.
C8_OnlyHS256 ==
  (last.hdr.scheme = "Bearer" /\ last.hdr.token.alg # "HS256")
    => /\ ValidateToken(last.hdr.token, now).err # "nil"
       /\ ~last.next

\* C9: a guard check without a user context returns the authentication-required
\* error; a request whose bearer token fails validation is refused before its
\* handler; a handler's user context is always that of a validated token.
C9_NoContextNoAccess ==
  /\ (last.op \in GuardChecks /\ last.next /\ last.ctx = NoUser)
       => last.err = "authentication required"
  /\ (last.hdr.scheme = "Bearer" /\ ValidateToken(last.hdr.token, now).err # "nil")
       => ~last.next /\ last.ctx = NoUser
  /\ (last.op \in GuardChecks /\ last.hdr # NoHeader /\ last.hdr.scheme # "Bearer")
       => ~last.next /\ last.ctx = NoUser
  /\ (last.next /\ last.ctx # NoUser)
       => /\ last.hdr.scheme = "Bearer"
          /\ ValidateToken(last.hdr.token, now).err = "nil"
          /\ last.ctx.UserID = last.hdr.token.claims.UserID

\* a request without Authorization header reached a permission check, which
\* answered that authentication is required
C9_Witness ==
  /\ last.hdr = NoHeader
  /\ Checked("RequirePermission")
  /\ last.ctx = NoUser
  /\ last.err = "authentication required"

\* C10: the audit log only grows: every step keeps the entries there are,
\* unchanged and in place.
C10_AppendOnly ==
  [][ /\ Len(audit_logs') >= Len(audit_logs)
      /\ SubSeq(audit_logs', 1, Len(audit_logs)) = audit_logs ]_vars

\* two entries of the same user and action stand in the log
C10_Witness ==
  /\ Len(audit_logs) = 2
  /\ audit_logs[1].username = audit_logs[2].username
  /\ audit_logs[1].action = audit_logs[2].action
  /\ audit_logs[1].id # audit_logs[2].id

\* what a call leaves behind apart from the audit log: the state of the
\* other stores and what it returned
NonAudit ==
  << users, user_roles, issued, now, oracle, creating,
     [ last EXCEPT !.audited = 0, !.auditErr = "none" ] >>

\* C11: a call whose audit write fails returns what the same call returns
\* when its audit write succeeds, and leaves the same state outside the audit
\* log: whenever a call is made with one outcome of the audit write, the call
\* with the other outcome is possible and differs in the audit log only.
C11_BestEffort ==
  [][ \A after \in { NonAudit' } :
        /\ last'.auditErr = "ok"
             => ENABLED (ServiceCall(FALSE) /\ NonAudit' = after)
        /\ (/\ last'.auditErr = "failed"
            /\ Len(audit_logs) < MaxServiceAudit
            /\ last'.op \in OracleCalls => ~Canceled(last'.fault))
             => ENABLED (ServiceCall(TRUE) /\ NonAudit' = after) ]_vars

\* a collector returned rows although its audit entry could not be written
C11_Witness ==
  /\ last.op \in ListCollectors
  /\ last.auditErr = "failed"
  /\ last.fault = "none"
  /\ last.err = "nil"
  /\ Len(last.result) > 0
  /\ audit_logs = << >>

\* C12: a refused Login, a request refused for its token, a check without
\* identity and a denied check each return an error and add one entry to the
\* audit log (the audit store accepting the write).
C12_FailureSurfacedAndAudited ==
  /\ (last.op = "Login" /\ last.Token = NoToken) => last.err # "nil"
  /\ (last.op \in GuardChecks /\ (~last.next \/ last.ctx = NoUser)) => last.err # "nil"
  /\ (last.op = "Login" /\ last.err # "nil" /\ last.auditErr = "ok")
       => /\ last.audited = 1
          /\ StatusOf(audit_logs[Len(audit_logs)]) = "FAILURE"
  /\ (last.op \in GuardChecks /\ last.err # "nil") => last.audited = 1

\* the last call was a collector call
CollectorCalled == last.op \in ListCollectors \cup { "GetDatabaseInstance" }

\* C13: a collector call adds exactly one entry to the audit log (the audit
\* store accepting the write), with the caller as actor: SUCCESS with the
\* number of rows returned when it returns a result, FAILURE when it returns an
\* error.
C13_OneEntryPerCall ==
  (CollectorCalled /\ last.auditErr # "failed")
    => /\ last.audited = 1
       /\ LET row == audit_logs[Len(audit_logs)]
          IN /\ row.user_id = last.arg[1]
             /\ row.action = CollectorAction(last.op)
             /\ last.err = "nil"
                  => /\ StatusOf(row) = "SUCCESS"
                     /\ row.metadata.resource_id = "count:" \o ToString(Len(last.result))
             /\ last.err # "nil" => StatusOf(row) = "FAILURE"

\* the relationships of a list of blocking sessions, as
\* << blocker, blocked, duration >>
Relationships(result) ==
  { << result[i].BlockingSID, result[i].BlockedSID, result[i].BlockedDurationSeconds >> :
      i \in DOMAIN result }

\* a call of GetBlockingSessions that read the whole result set
Analyzed ==
  /\ last.op = "GetBlockingSessions"
  /\ last.fault = "none"
  /\ last.err = "nil"

\* C14: the result of GetBlockingSessions holds no relationship whose blocker
\* is its blocked session; a session that names itself as its blocker is left
\* out.
C14_NoSelfBlocking ==
  Analyzed => \A r \in Relationships(last.result) : r[1] # r[2]

\* C15: GetBlockingSessions returns exactly one relationship for every pair of
\* distinct sessions of which the second names the first as its blocker, with
\* the second's seconds in wait as duration, and nothing else.
C15_OnePerPair ==
  Analyzed =>
    LET pairs == { << a.sid, b.sid, b.seconds_in_wait >> :
                     a \in oracle.v_session,
                     b \in { x \in oracle.v_session : x.blocking_session # NoSession } }
        expected == { r \in pairs :
                        /\ r[1] # r[2]
                        /\ \E b \in oracle.v_session : b.sid = r[2] /\ b.blocking_session = r[1] }
    IN /\ Relationships(last.result) = expected
       /\ Len(last.result) = Cardinality(expected)

\* C16: the relationships GetBlockingSessions returns stand in descending
\* order of blocked duration, and the resolver's mapping gives the same
\* relationships at the same positions.
C16_LongestWaitFirst ==
  (last.op = "GetBlockingSessions" /\ last.err = "nil") =>
    LET api == mapBlockingSessionsToGraphQL(last.result)
    IN /\ Len(api) = Len(last.result)
       /\ \A i \in DOMAIN api :
            /\ api[i].BlockingSid = last.result[i].BlockingSID
            /\ api[i].BlockedSid = last.result[i].BlockedSID
            /\ api[i].BlockedDurationSeconds = last.result[i].BlockedDurationSeconds
       /\ \A i \in 1 .. Len(api) - 1 :
            /\ last.result[i].BlockedDurationSeconds >= last.result[i + 1].BlockedDurationSeconds
            /\ api[i].BlockedDurationSeconds >= api[i + 1].BlockedDurationSeconds

\* two sessions wait for different times, and the one that waits longer
\* comes first
C16_Witness ==
  /\ Analyzed
  /\ Len(last.result) >= 2
  /\ last.result[1].BlockedDurationSeconds > last.result[Len(last.result)].BlockedDurationSeconds
  /\ last.result[1].BlockedSID # last.result[Len(last.result)].BlockedSID

\* the entries of the audit log that satisfy every field set in a filter
Satisfying(filter) ==
  { i \in DOMAIN audit_logs :
      LET row == audit_logs[i]
      IN /\ filter.UserID # NULL => row.user_id = filter.UserID
         /\ filter.Action # NULL => row.action = filter.Action
         /\ filter.ResourceType # NULL => row.target = filter.ResourceType
         /\ filter.Status # NULL => StatusOf(row) = filter.Status
         /\ filter.StartTime # NoTime => row.created_at >= filter.StartTime
         /\ filter.EndTime # NoTime => row.created_at <= filter.EndTime }

\* C17: List returns, newest first, exactly the entries that satisfy every
\* field set in the filter (a page of them when a limit or an offset is
\* given), and Count their number.
C17_FilterConjunction ==
  /\ last.op = "List"
       => /\ { last.result[i].ID : i \in DOMAIN last.result }
                \subseteq { audit_logs[i].id : i \in Satisfying(last.arg) }
          /\ (last.arg.Limit = 0 /\ last.arg.Offset = 0)
               => Len(last.result) = Cardinality(Satisfying(last.arg))
          /\ \A i \in 1 .. Len(last.result) - 1 :
               last.result[i].Timestamp >= last.result[i + 1].Timestamp
  /\ last.op = "Count" => last.count = Cardinality(Satisfying(last.arg))

\* C18: a collector call whose request is canceled, before the query returns
\* or while rows are read, returns an error and no rows, and adds no SUCCESS
\* entry to the audit log.
C18_NoSuccessAfterCancel ==
  (CollectorCalled /\ Canceled(last.fault))
    => /\ last.err # "nil"
       /\ last.result = << >>
       /\ last.audited = 1 => StatusOf(audit_logs[Len(audit_logs)]) # "SUCCESS"

\* the rows of the audit log that carry the id of request w's entry
RowsOf(w) == { i \in DOMAIN audit_logs : audit_logs[i].id = creating[w].row.id }

\* the requests whose Create has returned without, and with, an error
Stored == { w \in Writers : creating[w].pc = "done" /\ creating[w].err = "nil" }
Failed == { w \in Writers : creating[w].pc = "done" /\ creating[w].err # "nil" }

\* C19: under every interleaving of concurrent Create calls, the audit log
\* holds for each call that returned without error exactly one row, made of
\* that call's entry alone, and no other row; a call that failed left no row
\* and took none away.
C19_AtomicInserts ==
  /\ \A w \in Stored :
       /\ Cardinality(RowsOf(w)) = 1
       /\ \A i \in RowsOf(w) :
            LET row == audit_logs[i]
                log == creating[w].log
            IN /\ row.user_id = log.UserID
               /\ row.username = log.Username
               /\ row.action = log.Action
               /\ row.target = log.ResourceType
               /\ row.success = (log.Status = "SUCCESS")
               /\ row.metadata = [ resource_type |-> log.ResourceType,
                                   resource_id |-> safeString(log.ResourceID),
                                   oracle_schema |-> safeString(log.OracleSchema) ]
  /\ \A w \in Writers \ Stored : creating[w].pc # "idle" => RowsOf(w) = { }
  /\ Len(audit_logs) = Cardinality(Stored)

\* two requests were in Create at the same time with different entries; the
\* write of one failed and the entry of the other is stored
C19_Witness ==
  \E v, w \in Writers :
    /\ v \in Stored
    /\ w \in Failed
    /\ creating[v].log # creating[w].log
    /\ creating[v].row.created_at = creating[w].row.created_at
    /\ Len(audit_logs) = 1

C21_PermissionBeforeQuery ==
  (last.op \in Resolvers /\ last.statements # << >>)
    => /\ last.next
       /\ last.ctx # NoUser
       /\ last.ctx.Permissions # << >>
       /\ ResolverPermission(last.op) # ""
            => ResolverPermission(last.op) \in Range(last.ctx.Permissions)


C23_ExpiresAfterIssued ==
  (last.op = "Login" /\ last.err = "nil" /\ LoadAccepted)
    => /\ last.Token.claims.ExpiresAt > last.Token.claims.IssuedAt
       /\ last.ExpiresAt = last.Token.claims.ExpiresAt

\* C23, the first half alone: expiry strictly after issuance
C23_ExpiryOnly ==
  (last.op = "Login" /\ last.err = "nil" /\ LoadAccepted)
    => last.Token.claims.ExpiresAt > last.Token.claims.IssuedAt

\* C24: the user-role relation holds each (user, role) pair at most once;
\* AssignRole of a pair that is assigned succeeds and leaves the relation as
\* it was; RevokeRole of a pair that is not assigned returns an error and
\* leaves the relation as it was.
C24_PairAtMostOnce ==
  [][ /\ \A u \in DOMAIN users' :
           Len(GetRolesByUserID(user_roles', u))
             = Cardinality({ r \in RoleIDs : << u, r >> \in user_roles' })
      /\ (last'.op = "AssignRole" /\ last'.held)
           => /\ last'.err = "nil"
              /\ user_roles' = user_roles
      /\ (last'.op = "RevokeRole" /\ ~last'.held)
           => /\ last'.err # "nil"
              /\ user_roles' = user_roles ]_vars

\* AssignRole was called for a role the user held, RevokeRole for one the
\* user did not hold
C24_AssignedAgain == last.op = "AssignRole" /\ last.held /\ last.err = "nil"

C24_RevokedAgain ==
  last.op = "RevokeRole" /\ ~last.held /\ last.arg[2] \in RoleIDs /\ last.err # "nil"

\* the metric type and the target of a stored snapshot, and the schema of the
\* session it was taken of
KindOf(row) == IF "tablespace" \in DOMAIN row.raw_data THEN "tablespace" ELSE "session"

TargetOf(row) ==
  IF KindOf(row) = "tablespace" THEN row.raw_data.tablespace ELSE row.raw_data.sid

SchemaOf(row) == (CHOOSE m \in SessionMetrics : m.OracleSID = row.raw_data.sid).SchemaName

\* C25: the stored snapshots of one metric type and target have strictly
\* increasing collected-at values in the order they were written, so no two
\* of them share a collected-at value.
C25_CollectedAtIncreasing ==
  \A i, j \in DOMAIN session_snapshots :
    (i < j /\ KindOf(session_snapshots[i]) = KindOf(session_snapshots[j])
           /\ TargetOf(session_snapshots[i]) = TargetOf(session_snapshots[j]))
      => session_snapshots[i].snapshot_time < session_snapshots[j].snapshot_time

\* the stored tablespace snapshots, and the latest of them
TablespaceSnapshots ==
  { i \in DOMAIN session_snapshots : KindOf(session_snapshots[i]) = "tablespace" }

LatestSnapshots ==
  { i \in TablespaceSnapshots :
      \A j \in TablespaceSnapshots :
        session_snapshots[i].snapshot_time >= session_snapshots[j].snapshot_time }

\* C26: once a snapshot was recorded, Latest returns the payload of the most
\* recently recorded one and never an empty result; it returns empty only
\* when nothing was recorded.
C26_LatestIsMostRecent ==
  last.op = "GetLatest"
    => IF TablespaceSnapshots = { } THEN last.result = << >>
       ELSE /\ last.result # << >>
            /\ \A k \in DOMAIN last.result :
                 \E i \in LatestSnapshots :
                   /\ last.result[k].TablespaceName = session_snapshots[i].raw_data.tablespace
                   /\ last.result[k].UsagePercentage = session_snapshots[i].raw_data.usage

\* the stored snapshots a Range read has to return: those of the metric type
\* and, where one is given, of the schema or tablespace, inside the window
InRange(op, kind, target, start, end) ==
  { i \in DOMAIN session_snapshots :
      /\ KindOf(session_snapshots[i]) = kind
      /\ session_snapshots[i].snapshot_time >= start
      /\ session_snapshots[i].snapshot_time <= end
      /\ op = "GetBySchema" => SchemaOf(session_snapshots[i]) = target
      /\ op = "GetByTablespaceName" => session_snapshots[i].raw_data.tablespace = target }

\* a returned snapshot carries what was recorded in the row
Carries(kind, metric, row) ==
  /\ metric.ID = row.id
  /\ metric.CapturedAt = row.snapshot_time
  /\ kind = "session" => /\ metric.OracleSID = row.raw_data.sid
                         /\ metric.OracleSerial = row.raw_data.serial
                         /\ metric.Status = row.raw_data.status
  /\ kind = "tablespace" => /\ metric.TablespaceName = row.raw_data.tablespace
                            /\ metric.UsagePercentage = row.raw_data.usage

\* C27: Range returns exactly the snapshots recorded for the metric type and
\* target inside the window, ordered by collected-at, each with the recorded
\* values.
C27_RangeExact ==
  last.op \in { "GetByTimeRange", "GetBySchema", "GetByTablespaceName", "GetBySQLID" }
    => LET expected == InRange(last.op, last.kind, last.arg[1], last.arg[2], last.arg[3])
       IN /\ Len(last.result) = Cardinality(expected)
          /\ \A i \in expected :
               \E k \in DOMAIN last.result :
                 Carries(last.kind, last.result[k], session_snapshots[i])
          /\ \/ \A k \in 1 .. Len(last.result) - 1 :
                  last.result[k].CapturedAt <= last.result[k + 1].CapturedAt
             \/ \A k \in 1 .. Len(last.result) - 1 :
                  last.result[k].CapturedAt >= last.result[k + 1].CapturedAt

\* C27 for the one read that queries the table, over a table that holds
\* session snapshots only: the rows inside the window come back, by id and
\* collected-at
C27_SessionWindow ==
  (last.op = "GetByTimeRange" /\ last.kind = "session" /\ TablespaceSnapshots = { })
    => LET expected == InRange(last.op, last.kind, last.arg[1], last.arg[2], last.arg[3])
       IN /\ Len(last.result) = Cardinality(expected)
          /\ \A i \in expected :
               \E k \in DOMAIN last.result :
                 /\ last.result[k].ID = session_snapshots[i].id
                 /\ last.result[k].CapturedAt = session_snapshots[i].snapshot_time

\* at the time of the call a user with the name exists, is active, and the
\* password matches the stored hash
Accepted(attempt) ==
  \E u \in DOMAIN users :
    /\ users[u].Username = attempt[1]
    /\ users[u].IsActive
    /\ CompareHashAndPassword(users[u].PasswordHash, attempt[2])

\* the entry a refused Login leaves: a failed LOGIN without actor id
FailureEntry(row, username) ==
  /\ row.action = "LOGIN"
  /\ row.username = username
  /\ row.user_id = NULL
  /\ StatusOf(row) = "FAILURE"

\* what a Login does whatever the audit store does: a token only for
\* accepted credentials; otherwise an error, no token, last-login untouched,
\* and at most one entry, a FAILURE one without actor id; an UpdateLastLogin
\* that fails does not fail the login
LoginOutcome ==
  /\ last'.err = "nil" => Accepted(last'.attempt) /\ last'.Token # NoToken
  /\ last'.err # "nil" => last'.Token = NoToken /\ issued' = issued
  /\ ~Accepted(last'.attempt)
       => /\ last'.err # "nil"
          /\ users' = users
          /\ Len(audit_logs') <= Len(audit_logs) + 1
          /\ \A k \in DOMAIN audit_logs' \ DOMAIN audit_logs :
               FailureEntry(audit_logs'[k], last'.attempt[1])
  /\ (Accepted(last'.attempt) /\ last'.fault = "lastLogin")
       => /\ last'.err = "nil"
          /\ last'.Token \in { i.Token : i \in issued' }
          /\ users' = users

\* C28 as stated: every refused Login appends one FAILURE entry without
\* actor id.
C28_RefusedLoginAudited ==
  [][ last'.op = "Login"
        => /\ LoginOutcome
           /\ ~Accepted(last'.attempt) => Len(audit_logs') = Len(audit_logs) + 1 ]_vars

\* C28: Login returns a token only for a user that exists, is active and
\* gave the matching password; otherwise it returns an error, issues no
\* token, leaves last-login unchanged and appends one FAILURE entry without
\* actor id when the audit store takes the write, none when it does not; a
\* failed update of last-login does not fail the login.
C28_LoginOnlyForAccepted ==
  [][ last'.op = "Login"
        => /\ LoginOutcome
           /\ (~Accepted(last'.attempt) /\ last'.auditErr = "ok")
                => Len(audit_logs') = Len(audit_logs) + 1
           /\ (~Accepted(last'.attempt) /\ last'.auditErr # "ok")
                => audit_logs' = audit_logs ]_vars

\* a Login of the switched-off account was refused and audited; a Login went
\* through although last-login could not be written
C28_RefusedInactive ==
  /\ last.op = "Login"
  /\ last.fault = "none"
  /\ last.err = "user account is inactive"
  /\ last.audited = 1
  /\ FailureEntry(audit_logs[Len(audit_logs)], last.attempt[1])

C28_LastLoginNotWritten ==
  last.op = "Login" /\ last.fault = "lastLogin" /\ last.err = "nil" /\ last.Token # NoToken

\* C29: a CreateUser that returns an error leaves no user row and no role
\* assignment of the call behind; one that returns a user leaves that user
\* with exactly the requested roles.
C29_CreateUserAllOrNothing ==
  [][ last'.op = "CreateUser"
        => /\ last'.err # "nil" => users' = users /\ user_roles' = user_roles
           /\ last'.err = "nil"
                => \E u \in DOMAIN users' \ DOMAIN users :
                     /\ users'[u].Username = last'.arg[1]
                     /\ { r \in RoleIDs \cup { UnknownRoleID } : << u, r >> \in user_roles' }
                          = Range(last'.arg[2]) ]_vars

\* C29, the second half alone: a created user holds exactly the requested roles
C29_CreatedWithRequestedRoles ==
  [][ (last'.op = "CreateUser" /\ last'.err = "nil")
        => \E u \in DOMAIN users' \ DOMAIN users :
             /\ users'[u].Username = last'.arg[1]
             /\ { r \in RoleIDs \cup { UnknownRoleID } : << u, r >> \in user_roles' }
                  = Range(last'.arg[2]) ]_vars

\* the entries that were passed to a Create that stored the row with the id
PassedToCreate(id) ==
  { creating[w].log : w \in { v \in Stored : creating[v].row.id = id } }

\* C30: an entry read back through List or GetByID has the outcome, resource
\* type, resource id and error detail of the entry that was passed to
\* Create; an entry created as DENIED does not come back as FAILURE.
C30_ReadBackAsCreated ==
  last.op \in { "GetByID", "List" }
    => \A k \in DOMAIN last.result :
         \A log \in PassedToCreate(last.result[k].ID) :
           /\ last.result[k].Status = log.Status
           /\ last.result[k].ResourceType = log.ResourceType
           /\ last.result[k].ResourceID = log.ResourceID
           /\ last.result[k].ErrorMessage = log.ErrorMessage

\* C30, the part the stored row does carry: SUCCESS comes back as SUCCESS,
\* and the resource type comes back as passed
C30_SuccessAndTypeReadBack ==
  last.op \in { "GetByID", "List" }
    => \A k \in DOMAIN last.result :
         \A log \in PassedToCreate(last.result[k].ID) :
           /\ (last.result[k].Status = "SUCCESS") = (log.Status = "SUCCESS")
           /\ last.result[k].ResourceType = log.ResourceType
====
